---- MODULE Spec2Model ----
(***************************************************************************)
(* Model of the churn-cost projection engine                               *)
(* (src/src/utils/calculations.ts).                                        *)
(*                                                                         *)
(* JavaScript numbers are modelled as exact rationals                      *)
(* [n |-> numerator, d |-> denominator] in lowest terms with d > 0.  Every *)
(* value the engine is applied to here is a short decimal and the model    *)
(* computes the code's expressions exactly; Math.round is floor(x + 1/2),  *)
(* a tie going towards +infinity.  The representation error of IEEE        *)
(* doubles is not modelled.                                                *)
(*                                                                         *)
(* The application around the engine (pages/CalculatorPage.tsx,            *)
(* pages/ResultsPage.tsx, contexts/CalculatorContext.tsx,                  *)
(* utils/aiAnalysis.ts, utils/hubspot.ts) is modelled as the handlers the  *)
(* browser's event loop runs to completion, one action each.               *)
(***************************************************************************)
EXTENDS Integers, Sequences, FiniteSets, TLC

VARIABLES inputs, fn, pc, years, annualLoss, ret, scenarios, profile,
          year, cumulativeLoss, currentCustomerBase, lifespanLog,
          allResults, naiveRet,
          env, ctx, storage, ui, ai, hs, req, docFresh, fetches, contactData,
          form, wizard

engineVars == <<inputs, fn, pc, years, annualLoss, ret, scenarios, profile,
                year, cumulativeLoss, currentCustomerBase, lifespanLog>>

\* the state of the callers added to the engine's first callers
\* the application around the engine: the build's environment, the session
\* context, sessionStorage, the mounted page, the narrative request, the CRM
\* submission and its HTTP request, whether the document was just loaded,
\* the calls of fetch the last CRM submission has made and the contact data
\* it has built
appVars ==
    <<env, ctx, storage, ui, ai, hs, req, docFresh, fetches, contactData>>

\* the two input components: CalculatorForm and StepWizardCalculator
formVars == <<form, wizard>>

extVars == <<allResults, naiveRet, appVars, formVars>>

vars == <<engineVars, extVars>>

(***************************************************************************)
(* Bounds of the model.                                                    *)
(***************************************************************************)
MaxYears == 5

MaxCalls == 2

\* narrative requests still in flight after their page was left
MaxOrphans == 1

(***************************************************************************)
(* Number arithmetic.                                                      *)
(***************************************************************************)
Abs(x) == IF x < 0 THEN -x ELSE x

RECURSIVE GCD(_, _)
GCD(a, b) == IF b = 0 THEN a ELSE GCD(b, a % b)

Rat(num, den) ==
    LET g == GCD(Abs(num), den)
    IN  [n |-> num \div g, d |-> den \div g]

Num(k) == [n |-> k, d |-> 1]

Zero == Num(0)

Mul(x, y) ==
    LET g1 == GCD(Abs(x.n), y.d)
        g2 == GCD(Abs(y.n), x.d)
    IN  Rat((x.n \div g1) * (y.n \div g2), (x.d \div g2) * (y.d \div g1))

Div(x, y) ==
    IF y.n > 0 THEN Mul(x, [n |-> y.d, d |-> y.n])
               ELSE Mul(x, [n |-> -y.d, d |-> -y.n])

Add(x, y) ==
    LET g == GCD(x.d, y.d)
    IN  Rat(x.n * (y.d \div g) + y.n * (x.d \div g), (x.d \div g) * y.d)

Sub(x, y) == Add(x, [n |-> -y.n, d |-> y.d])

Lt(x, y) == x.n * y.d < y.n * x.d

Le(x, y) == x.n * y.d <= y.n * x.d

\* Math.round(x): the integer floor(x + 1/2)
MathRound(x) == (2 * x.n + x.d) \div (2 * x.d)

\* Math.round(x * 100) / 100
Round2(x) == Rat(MathRound(Mul(x, Num(100))), 100)

\* Math.round(x * 10) / 10
Round1(x) == Rat(MathRound(Mul(x, Num(10))), 10)

(***************************************************************************)
(* calculateAnnualRevenueLost                                              *)
(***************************************************************************)
\* Mutant: Math.floor in place of Math.round.
calculateAnnualRevenueLost_Floor(i) ==
    IF \/ Le(i.numberOfCustomers, Zero) \/ Le(i.churnRate, Zero)
       \/ Le(i.averageOrderValue, Zero) \/ Le(i.purchaseFrequency, Zero)
    THEN Zero
    ELSE IF Lt(Num(100), i.churnRate)
    THEN Zero
    ELSE LET customersLost == Mul(i.numberOfCustomers, Div(i.churnRate, Num(100)))
             annualValuePerCustomer == Mul(i.averageOrderValue, i.purchaseFrequency)
             cents == Mul(Mul(customersLost, annualValuePerCustomer), Num(100))
         IN  Rat(cents.n \div cents.d, 100)

\* Mutant: the churnRate > 100 check is missing.
calculateAnnualRevenueLost_NoCeiling(i) ==
    IF \/ Le(i.numberOfCustomers, Zero) \/ Le(i.churnRate, Zero)
       \/ Le(i.averageOrderValue, Zero) \/ Le(i.purchaseFrequency, Zero)
    THEN Zero
    ELSE LET customersLost == Mul(i.numberOfCustomers, Div(i.churnRate, Num(100)))
             annualValuePerCustomer == Mul(i.averageOrderValue, i.purchaseFrequency)
         IN  Round2(Mul(customersLost, annualValuePerCustomer))

\* Mutant: a churn rate of exactly 100 is rejected as well.
calculateAnnualRevenueLost_Below100(i) ==
    IF \/ Le(i.numberOfCustomers, Zero) \/ Le(i.churnRate, Zero)
       \/ Le(i.averageOrderValue, Zero) \/ Le(i.purchaseFrequency, Zero)
    THEN Zero
    ELSE IF Le(Num(100), i.churnRate)
    THEN Zero
    ELSE LET customersLost == Mul(i.numberOfCustomers, Div(i.churnRate, Num(100)))
             annualValuePerCustomer == Mul(i.averageOrderValue, i.purchaseFrequency)
         IN  Round2(Mul(customersLost, annualValuePerCustomer))

calculateAnnualRevenueLost(i) ==
    IF \/ Le(i.numberOfCustomers, Zero) \/ Le(i.churnRate, Zero)
       \/ Le(i.averageOrderValue, Zero) \/ Le(i.purchaseFrequency, Zero)
    THEN Zero
    ELSE IF Lt(Num(100), i.churnRate)
    THEN Zero
    ELSE LET customersLost == Mul(i.numberOfCustomers, Div(i.churnRate, Num(100)))
             annualValuePerCustomer == Mul(i.averageOrderValue, i.purchaseFrequency)
             annualLossV == Mul(customersLost, annualValuePerCustomer)
         IN  Round2(annualLossV)

(***************************************************************************)
(* calculateMonthlyRevenueLost                                             *)
(***************************************************************************)
\* Mutant: Math.floor in place of Math.round.
calculateMonthlyRevenueLost_Floor(al) ==
    IF Le(al, Zero)
    THEN Zero
    ELSE LET cents == Mul(Div(al, Num(12)), Num(100))
         IN  Rat(cents.n \div cents.d, 100)

calculateMonthlyRevenueLost(al) ==
    IF Le(al, Zero)
    THEN Zero
    ELSE LET monthlyLoss == Div(al, Num(12))
         IN  Round2(monthlyLoss)

(***************************************************************************)
(* calculateLifetimeValueLost: the loop body, the loop, the function.      *)
(* A loop state is [year, cumulativeLoss, currentCustomerBase, brk].       *)
(***************************************************************************)
\* Mutant: the loop never stops early.
LifetimeBody_NoBreak(i, s) ==
    LET churnRateDecimal == Div(i.churnRate, Num(100))
        annualValuePerCustomer == Mul(i.averageOrderValue, i.purchaseFrequency)
        customersLostThisYear == Mul(s.currentCustomerBase, churnRateDecimal)
        revenueLostThisYear == Mul(customersLostThisYear, annualValuePerCustomer)
    IN  [year |-> s.year + 1,
         cumulativeLoss |-> Add(s.cumulativeLoss, revenueLostThisYear),
         currentCustomerBase |-> Sub(s.currentCustomerBase, customersLostThisYear),
         brk |-> FALSE]

\* Mutant: every year loses the churn rate's share of the first customer
\* base, not of the remaining one.
LifetimeBody_FlatLoss(i, s) ==
    LET churnRateDecimal == Div(i.churnRate, Num(100))
        annualValuePerCustomer == Mul(i.averageOrderValue, i.purchaseFrequency)
        customersLostThisYear == Mul(i.numberOfCustomers, churnRateDecimal)
        revenueLostThisYear == Mul(customersLostThisYear, annualValuePerCustomer)
        base == Sub(s.currentCustomerBase, customersLostThisYear)
    IN  [year |-> IF Lt(base, Num(1)) THEN s.year ELSE s.year + 1,
         cumulativeLoss |-> Add(s.cumulativeLoss, revenueLostThisYear),
         currentCustomerBase |-> base,
         brk |-> Lt(base, Num(1))]

LifetimeBody(i, s) ==
    LET churnRateDecimal == Div(i.churnRate, Num(100))
        annualValuePerCustomer == Mul(i.averageOrderValue, i.purchaseFrequency)
        customersLostThisYear == Mul(s.currentCustomerBase, churnRateDecimal)
        revenueLostThisYear == Mul(customersLostThisYear, annualValuePerCustomer)
        base == Sub(s.currentCustomerBase, customersLostThisYear)
    IN  [year |-> IF Lt(base, Num(1)) THEN s.year ELSE s.year + 1,
         cumulativeLoss |-> Add(s.cumulativeLoss, revenueLostThisYear),
         currentCustomerBase |-> base,
         brk |-> Lt(base, Num(1))]

LifetimeGuard(i, y) ==
    \/ y <= 0 \/ Le(i.churnRate, Zero) \/ Lt(Num(100), i.churnRate)
    \/ Le(i.numberOfCustomers, Zero) \/ Le(i.averageOrderValue, Zero)
    \/ Le(i.purchaseFrequency, Zero)

LifetimeStart(i) ==
    [year |-> 0, cumulativeLoss |-> Zero,
     currentCustomerBase |-> i.numberOfCustomers, brk |-> FALSE]

RECURSIVE LifetimeLoop(_, _, _)
LifetimeLoop(i, y, s) ==
    IF s.brk \/ ~(s.year < y) THEN s ELSE LifetimeLoop(i, y, LifetimeBody(i, s))

calculateLifetimeValueLost(i, y) ==
    IF LifetimeGuard(i, y)
    THEN Zero
    ELSE Round2(LifetimeLoop(i, y, LifetimeStart(i)).cumulativeLoss)

(***************************************************************************)
(* calculateCustomerLifespan                                               *)
(***************************************************************************)
\* Mutant: rounded to 2 decimals instead of 1.
calculateCustomerLifespan_TwoDecimals(churnRate) ==
    IF Le(churnRate, Zero) \/ Lt(Num(100), churnRate)
    THEN Zero
    ELSE Round2(Div(Num(1), Div(churnRate, Num(100))))

\* Mutant: churn rates below 1 percent are rejected as well.
calculateCustomerLifespan_BelowOne(churnRate) ==
    IF Lt(churnRate, Num(1)) \/ Lt(Num(100), churnRate)
    THEN Zero
    ELSE Round1(Div(Num(1), Div(churnRate, Num(100))))

calculateCustomerLifespan(churnRate) ==
    IF Le(churnRate, Zero) \/ Lt(Num(100), churnRate)
    THEN Zero
    ELSE LET lifespan == Div(Num(1), Div(churnRate, Num(100)))
         IN  Round1(lifespan)

(***************************************************************************)
(* calculateChurnReductionScenarios                                        *)
(***************************************************************************)
reductionPercentages == <<10, 25, 50>>

\* Mutant: the new annual loss is computed from the unchanged inputs.
Scenario_SameInputs(i, al, reduction) ==
    LET newChurnRate == Mul(i.churnRate, Sub(Num(1), Div(Num(reduction), Num(100))))
        annualSavings == Sub(al, calculateAnnualRevenueLost(i))
    IN  [reductionPercentage |-> reduction,
         newChurnRate |-> Round2(newChurnRate),
         annualSavings |-> Round2(annualSavings),
         threeYearSavings |-> Round2(Mul(annualSavings, Num(3)))]

\* Mutant: the reduction is added to the churn rate instead of taken off.
Scenario_Increase(i, al, reduction) ==
    LET newChurnRate == Mul(i.churnRate, Add(Num(1), Div(Num(reduction), Num(100))))
        newInputs == [i EXCEPT !.churnRate = newChurnRate]
        annualSavings == Sub(al, calculateAnnualRevenueLost(newInputs))
    IN  [reductionPercentage |-> reduction,
         newChurnRate |-> Round2(newChurnRate),
         annualSavings |-> Round2(annualSavings),
         threeYearSavings |-> Round2(Mul(annualSavings, Num(3)))]

Scenario(i, al, reduction) ==
    LET newChurnRate == Mul(i.churnRate, Sub(Num(1), Div(Num(reduction), Num(100))))
        newInputs == [i EXCEPT !.churnRate = newChurnRate]
        newAnnualLoss == calculateAnnualRevenueLost(newInputs)
        annualSavings == Sub(al, newAnnualLoss)
        threeYearSavings == Mul(annualSavings, Num(3))
    IN  [reductionPercentage |-> reduction,
         newChurnRate |-> Round2(newChurnRate),
         annualSavings |-> Round2(annualSavings),
         threeYearSavings |-> Round2(threeYearSavings)]

\* Mutant: annualLoss = 0 passes the guard.
calculateChurnReductionScenarios_ZeroLoss(i, al) ==
    IF Lt(al, Zero) \/ Le(i.churnRate, Zero) \/ Lt(Num(100), i.churnRate)
    THEN << >>
    ELSE [k \in 1..Len(reductionPercentages) |->
              Scenario(i, al, reductionPercentages[k])]

calculateChurnReductionScenarios(i, al) ==
    IF Le(al, Zero) \/ Le(i.churnRate, Zero) \/ Lt(Num(100), i.churnRate)
    THEN << >>
    ELSE [k \in 1..Len(reductionPercentages) |->
              Scenario(i, al, reductionPercentages[k])]

(***************************************************************************)
(* calculateAllResults                                                     *)
(***************************************************************************)
\* Mutant: the monthly loss is the annual loss divided by 10.
calculateAllResults_TenMonths(i) ==
    LET annualRevenueLost == calculateAnnualRevenueLost(i)
        monthlyRevenueLost == Round2(Div(annualRevenueLost, Num(10)))
        customersLostPerYear == Mul(i.numberOfCustomers, Div(i.churnRate, Num(100)))
    IN  [annualRevenueLost |-> Round2(annualRevenueLost),
         monthlyRevenueLost |-> Round2(monthlyRevenueLost),
         threeYearImpact |-> Round2(calculateLifetimeValueLost(i, 3)),
         fiveYearImpact |-> Round2(calculateLifetimeValueLost(i, 5)),
         customerLifespan |-> Round1(calculateCustomerLifespan(i.churnRate)),
         customersLostPerYear |-> Round2(customersLostPerYear),
         customersLostPerMonth |-> Round2(Div(customersLostPerYear, Num(12))),
         churnReductionScenarios |->
             calculateChurnReductionScenarios(i, annualRevenueLost)]

calculateAllResults(i) ==
    LET annualRevenueLost == calculateAnnualRevenueLost(i)
        monthlyRevenueLost == calculateMonthlyRevenueLost(annualRevenueLost)
        threeYearImpact == calculateLifetimeValueLost(i, 3)
        fiveYearImpact == calculateLifetimeValueLost(i, 5)
        customerLifespan == calculateCustomerLifespan(i.churnRate)
        customersLostPerYear == Mul(i.numberOfCustomers, Div(i.churnRate, Num(100)))
        customersLostPerMonth == Div(customersLostPerYear, Num(12))
    IN  [annualRevenueLost |-> Round2(annualRevenueLost),
         monthlyRevenueLost |-> Round2(monthlyRevenueLost),
         threeYearImpact |-> Round2(threeYearImpact),
         fiveYearImpact |-> Round2(fiveYearImpact),
         customerLifespan |-> Round1(customerLifespan),
         customersLostPerYear |-> Round2(customersLostPerYear),
         customersLostPerMonth |-> Round2(customersLostPerMonth),
         churnReductionScenarios |->
             calculateChurnReductionScenarios(i, annualRevenueLost)]

(***************************************************************************)
(* categorizeStore                                                         *)
(***************************************************************************)
\* Mutant: the thresholds are inclusive upper bounds.
categorizeStore_Inclusive(i, results) ==
    [sizeCategory |->
         IF Le(i.numberOfCustomers, Num(1000)) THEN "small"
         ELSE IF Le(i.numberOfCustomers, Num(10000)) THEN "medium"
         ELSE IF Le(i.numberOfCustomers, Num(50000)) THEN "large"
         ELSE "enterprise",
     aovCategory |->
         IF Le(i.averageOrderValue, Num(50)) THEN "low"
         ELSE IF Le(i.averageOrderValue, Num(150)) THEN "medium"
         ELSE IF Le(i.averageOrderValue, Num(500)) THEN "high"
         ELSE "luxury",
     churnSeverity |->
         IF Le(Num(75), i.churnRate) THEN "critical"
         ELSE IF Lt(Num(60), i.churnRate) THEN "concerning"
         ELSE IF Lt(Num(45), i.churnRate) THEN "moderate"
         ELSE "good"]

categorizeStore(i, results) ==
    [sizeCategory |->
         IF Lt(i.numberOfCustomers, Num(1000)) THEN "small"
         ELSE IF Lt(i.numberOfCustomers, Num(10000)) THEN "medium"
         ELSE IF Lt(i.numberOfCustomers, Num(50000)) THEN "large"
         ELSE "enterprise",
     aovCategory |->
         IF Lt(i.averageOrderValue, Num(50)) THEN "low"
         ELSE IF Lt(i.averageOrderValue, Num(150)) THEN "medium"
         ELSE IF Lt(i.averageOrderValue, Num(500)) THEN "high"
         ELSE "luxury",
     churnSeverity |->
         IF Lt(Num(75), i.churnRate) THEN "critical"
         ELSE IF Le(Num(60), i.churnRate) THEN "concerning"
         ELSE IF Le(Num(45), i.churnRate) THEN "moderate"
         ELSE "good"]

\* The earlier copy of categorizeStore: the same size and AOV thresholds,
\* strict comparisons for the churn severity.
earlierCategorizeStore(i, results) ==
    [sizeCategory |->
         IF Lt(i.numberOfCustomers, Num(1000)) THEN "small"
         ELSE IF Lt(i.numberOfCustomers, Num(10000)) THEN "medium"
         ELSE IF Lt(i.numberOfCustomers, Num(50000)) THEN "large"
         ELSE "enterprise",
     aovCategory |->
         IF Lt(i.averageOrderValue, Num(50)) THEN "low"
         ELSE IF Lt(i.averageOrderValue, Num(150)) THEN "medium"
         ELSE IF Lt(i.averageOrderValue, Num(500)) THEN "high"
         ELSE "luxury",
     churnSeverity |->
         IF Lt(Num(75), i.churnRate) THEN "critical"
         ELSE IF Lt(Num(60), i.churnRate) THEN "concerning"
         ELSE IF Lt(Num(45), i.churnRate) THEN "moderate"
         ELSE "good"]

(***************************************************************************)
(* Input values the engine is applied to.                                  *)
(***************************************************************************)
Inputs(nc, cr, aov, pf) ==
    [numberOfCustomers |-> nc, churnRate |-> cr,
     averageOrderValue |-> aov, purchaseFrequency |-> pf]

EngineInputs ==
    { Inputs(nc, cr, aov, pf) :
        nc \in {Num(-1), Zero, Num(1), Num(3), Num(1000)},
        cr \in {Num(-5), Zero, Rat(1, 100), Num(10), Num(75), Num(100), Num(101)},
        aov \in {Num(-20), Zero, Rat(1, 100), Rat(333, 100), Num(100)},
        pf \in {Zero, Rat(1, 10), Num(2)} }

AnnualLossArgs == {Num(-1), Zero, Rat(1, 200), Num(1), Num(150000)}

LifetimeInputs ==
    { Inputs(nc, cr, aov, pf) :
        nc \in {Zero, Num(1), Num(3), Num(1000)},
        cr \in {Zero, Num(10), Num(50), Num(75), Num(100), Num(101)},
        aov \in {Zero, Rat(25, 2), Num(100)},
        pf \in {Num(-1), Rat(1, 2), Num(2)} }

LifespanRates ==
    {Num(-5), Zero, Rat(1, 100), Num(10), Num(20), Num(75), Num(99),
     Num(100), Rat(10001, 100), Num(150)}

CategorizeInputs ==
    { Inputs(nc, cr, aov, pf) :
        nc \in {Num(999), Num(1000), Num(9999), Num(10000), Num(49999), Num(50000)},
        cr \in {Rat(4499, 100), Num(45), Rat(5999, 100), Num(60), Num(75), Rat(7501, 100)},
        aov \in {Rat(4999, 100), Num(50), Rat(14999, 100), Num(150), Rat(49999, 100), Num(500)},
        pf \in {Num(2)} }

\* the store of the documented categorizeStore example
ExampleStoreInputs == Inputs(Num(5000), Num(75), Num(200), Num(2))

AllResultsInputs ==
    { Inputs(nc, cr, aov, pf) :
        nc \in {Num(-1), Zero, Num(1), Num(3), Num(1000)},
        cr \in {Num(-5), Zero, Num(10), Num(50), Num(75), Num(100), Num(101)},
        aov \in {Zero, Rat(25, 2), Num(100)},
        pf \in {Num(-1), Rat(1, 2), Num(2)} }

DefaultInputs == Inputs(Num(1000), Num(75), Num(100), Num(2))

NoResults ==
    [annualRevenueLost |-> Zero, monthlyRevenueLost |-> Zero,
     threeYearImpact |-> Zero, fiveYearImpact |-> Zero,
     customerLifespan |-> Zero, customersLostPerYear |-> Zero,
     customersLostPerMonth |-> Zero, churnReductionScenarios |-> << >>]

NoProfile == [sizeCategory |-> "none", aovCategory |-> "none", churnSeverity |-> "none"]

(***************************************************************************)
(* Values of the application's state.  A nullable value is the empty       *)
(* sequence (null) or a one-element sequence.                              *)
(***************************************************************************)
Null == << >>

Some(x) == <<x>>

\* CalculatorProvider's state before anything is entered
NoContext ==
    [calculatorInputs |-> Null, calculatorResults |-> Null,
     userInfo |-> Null, aiAnalysis |-> Null]

\* CalculatorPage freshly mounted
CalculatorPageMounted ==
    [page |-> "calculator", showEmailCapture |-> FALSE,
     aiLoading |-> FALSE, aiError |-> FALSE, redirected |-> FALSE]

NoError == [name |-> "none", status |-> 0]

\* no narrative request of the mounted page; orphans counts the requests
\* whose page was left before they settled
AiIdle == [pc |-> "idle", outcome |-> "none", orphans |-> 0, left |-> << >>]

HsIdle == [pc |-> "idle", outcome |-> "none"]

ReqIdle ==
    [pc |-> "idle", call |-> "none", i |-> 0, outcomes |-> << >>,
     timer |-> 0, waited |-> 0, error |-> NoError]

\* a build without API keys, in production mode
NoKeys == [apiKey |-> FALSE, hubspot |-> FALSE, testMode |-> FALSE,
           listId |-> FALSE, storage |-> TRUE]

\* useForm's defaultValues (CalculatorForm)
defaultValues ==
    [averageOrderValue |-> << >>, numberOfCustomers |-> << >>,
     purchaseFrequency |-> <<"2">>, churnRate |-> << >>]

\* CalculatorForm as mounted: the default values, onSubmit not called yet
\* (the error messages react-hook-form displays are not modelled)
CalculatorFormMounted == [data |-> defaultValues, onSubmit |-> Null]

\* StepWizardCalculator as mounted (useState initial values); a key of
\* formData that is absent is undefined
WizardMounted ==
    [currentStep |-> 0,
     formData |-> [averageOrderValue |-> Null, numberOfCustomers |-> Null,
                   purchaseFrequency |-> Some(Num(2)),
                   churnRate |-> Some(Num(75))],
     errors |-> {}, onSubmit |-> Null]

FormIdle ==
    /\ form = CalculatorFormMounted
    /\ wizard = WizardMounted

AppIdle ==
    /\ env = NoKeys
    /\ ctx = NoContext
    /\ storage = Null
    /\ ui = CalculatorPageMounted
    /\ ai = AiIdle
    /\ hs = HsIdle
    /\ req = ReqIdle
    /\ docFresh = TRUE
    /\ fetches = << >>
    /\ contactData = Null

(***************************************************************************)
(* The engine's callers: one call of an engine function on the inputs.     *)
(***************************************************************************)
EngineIdle ==
    /\ fn = "none"
    /\ pc = "idle"
    /\ years = 0
    /\ annualLoss = Zero
    /\ ret = Zero
    /\ scenarios = << >>
    /\ profile = NoProfile
    /\ year = 0
    /\ cumulativeLoss = Zero
    /\ currentCustomerBase = Zero
    /\ lifespanLog = << >>
    /\ allResults = NoResults
    /\ naiveRet = Zero

Idle ==
    /\ EngineIdle
    /\ AppIdle
    /\ FormIdle

Init ==
    /\ inputs \in EngineInputs
    /\ Idle

CallAnnualRevenueLost ==
    /\ pc = "idle"
    /\ fn' = "annual"
    /\ ret' = calculateAnnualRevenueLost(inputs)
    /\ pc' = "done"
    /\ UNCHANGED <<inputs, years, annualLoss, scenarios, profile, year,
                   cumulativeLoss, currentCustomerBase, lifespanLog>>
    /\ UNCHANGED extVars

CallMonthlyRevenueLost ==
    /\ pc = "idle"
    /\ \E al \in AnnualLossArgs \cup {calculateAnnualRevenueLost(inputs)} :
          /\ annualLoss' = al
          /\ ret' = calculateMonthlyRevenueLost(al)
    /\ fn' = "monthly"
    /\ pc' = "done"
    /\ UNCHANGED <<inputs, years, scenarios, profile, year,
                   cumulativeLoss, currentCustomerBase, lifespanLog>>
    /\ UNCHANGED extVars

CallChurnReductionScenarios ==
    /\ pc = "idle"
    /\ \E al \in AnnualLossArgs \cup {calculateAnnualRevenueLost(inputs)} :
          /\ annualLoss' = al
          /\ scenarios' = calculateChurnReductionScenarios(inputs, al)
    /\ fn' = "scenarios"
    /\ pc' = "done"
    /\ UNCHANGED <<inputs, years, ret, profile, year,
                   cumulativeLoss, currentCustomerBase, lifespanLog>>
    /\ UNCHANGED extVars

Next ==
    \/ CallAnnualRevenueLost
    \/ CallMonthlyRevenueLost
    \/ CallChurnReductionScenarios

Spec == Init /\ [][Next]_vars

(***************************************************************************)
(* calculateLifetimeValueLost, one loop iteration per step.                *)
(***************************************************************************)
InitLifetime ==
    /\ inputs \in LifetimeInputs
    /\ Idle

LifetimeCall ==
    /\ pc = "idle"
    /\ fn' = "lifetime"
    /\ \E y \in -1..MaxYears :
          /\ years' = y
          /\ IF LifetimeGuard(inputs, y)
             THEN /\ ret' = Zero
                  /\ pc' = "done"
                  /\ UNCHANGED <<year, cumulativeLoss, currentCustomerBase>>
             ELSE /\ pc' = "loop"
                  /\ year' = LifetimeStart(inputs).year
                  /\ cumulativeLoss' = LifetimeStart(inputs).cumulativeLoss
                  /\ currentCustomerBase' = LifetimeStart(inputs).currentCustomerBase
                  /\ UNCHANGED ret
    /\ UNCHANGED <<inputs, annualLoss, scenarios, profile, lifespanLog>>
    /\ UNCHANGED extVars

LifetimeIterate ==
    /\ pc = "loop"
    /\ year < years
    /\ LET s == LifetimeBody(inputs, [year |-> year,
                                      cumulativeLoss |-> cumulativeLoss,
                                      currentCustomerBase |-> currentCustomerBase,
                                      brk |-> FALSE])
       IN  /\ year' = s.year
           /\ cumulativeLoss' = s.cumulativeLoss
           /\ currentCustomerBase' = s.currentCustomerBase
           /\ pc' = IF s.brk THEN "break" ELSE "loop"
    /\ UNCHANGED <<inputs, fn, years, annualLoss, ret, scenarios, profile, lifespanLog>>
    /\ UNCHANGED extVars

LifetimeReturn ==
    /\ \/ pc = "break"
       \/ pc = "loop" /\ ~(year < years)
    /\ ret' = Round2(cumulativeLoss)
    /\ pc' = "done"
    /\ UNCHANGED <<inputs, fn, years, annualLoss, scenarios, profile, year,
                   cumulativeLoss, currentCustomerBase, lifespanLog>>
    /\ UNCHANGED extVars

NextLifetime ==
    \/ LifetimeCall
    \/ LifetimeIterate
    \/ LifetimeReturn

SpecLifetime == InitLifetime /\ [][NextLifetime]_vars

(***************************************************************************)
(* calculateCustomerLifespan, called up to MaxCalls times.                 *)
(***************************************************************************)
InitLifespan ==
    /\ inputs = DefaultInputs
    /\ Idle

CallCustomerLifespan ==
    /\ Len(lifespanLog) < MaxCalls
    /\ \E c \in LifespanRates :
          /\ ret' = calculateCustomerLifespan(c)
          /\ lifespanLog' = Append(lifespanLog,
                 [churnRate |-> c, lifespan |-> calculateCustomerLifespan(c)])
    /\ fn' = "lifespan"
    /\ UNCHANGED <<inputs, pc, years, annualLoss, scenarios, profile, year,
                   cumulativeLoss, currentCustomerBase>>
    /\ UNCHANGED extVars

NextLifespan == CallCustomerLifespan

SpecLifespan == InitLifespan /\ [][NextLifespan]_vars

(***************************************************************************)
(* categorizeStore                                                         *)
(***************************************************************************)
InitCategorize ==
    /\ inputs \in CategorizeInputs \cup {ExampleStoreInputs}
    /\ Idle

CallCategorizeStore ==
    /\ pc = "idle"
    /\ profile' = categorizeStore(inputs, calculateAllResults(inputs))
    /\ fn' = "categorize"
    /\ pc' = "done"
    /\ UNCHANGED <<inputs, years, annualLoss, ret, scenarios, year,
                   cumulativeLoss, currentCustomerBase, lifespanLog>>
    /\ UNCHANGED extVars

CallEarlierCategorizeStore ==
    /\ pc = "idle"
    /\ profile' = earlierCategorizeStore(inputs, calculateAllResults(inputs))
    /\ fn' = "earlierCategorize"
    /\ pc' = "done"
    /\ UNCHANGED <<inputs, years, annualLoss, ret, scenarios, year,
                   cumulativeLoss, currentCustomerBase, lifespanLog>>
    /\ UNCHANGED extVars

NextCategorize ==
    \/ CallCategorizeStore
    \/ CallEarlierCategorizeStore

SpecCategorize == InitCategorize /\ [][NextCategorize]_vars

(***************************************************************************)
(* Vocabulary of the properties.                                           *)
(***************************************************************************)
ValidChurnRate(c) == Lt(Zero, c) /\ Le(c, Num(100))

ValidInputs(i) ==
    /\ Lt(Zero, i.numberOfCustomers)
    /\ ValidChurnRate(i.churnRate)
    /\ Lt(Zero, i.averageOrderValue)
    /\ Lt(Zero, i.purchaseFrequency)

Half == Rat(1, 2)

\* r is x rounded to a multiple of 1/scale, a tie going upwards
HalfUp(r, x, scale) ==
    LET rs == Mul(r, Num(scale))
        xs == Mul(x, Num(scale))
    IN  /\ rs.d = 1
        /\ Lt(Sub(xs, Half), rs)
        /\ Le(rs, Add(xs, Half))

\* r is a multiple of 1/scale nearest to x, whichever way a tie goes
Nearest(r, x, scale) ==
    LET rs == Mul(r, Num(scale))
        xs == Mul(x, Num(scale))
    IN  /\ rs.d = 1
        /\ Le(Sub(xs, Half), rs)
        /\ Le(rs, Add(xs, Half))

\* numberOfCustomers x (churnRate/100) x averageOrderValue x purchaseFrequency
ExactAnnual(i) ==
    Mul(Mul(Mul(i.numberOfCustomers, Div(i.churnRate, Num(100))),
            i.averageOrderValue), i.purchaseFrequency)

(***************************************************************************)
(* C1: for every valid input calculateAnnualRevenueLost returns            *)
(* numberOfCustomers x (churnRate/100) x averageOrderValue x               *)
(* purchaseFrequency rounded to 2 decimal places.                          *)
(***************************************************************************)
C1_AnnualIsRoundedProduct ==
    (fn = "annual" /\ ValidInputs(inputs))
        => HalfUp(ret, ExactAnnual(inputs), 100)

C1_Witness ==
    /\ fn = "annual"
    /\ ValidInputs(inputs)
    /\ Lt(Zero, ret)
    /\ ret # ExactAnnual(inputs)

(***************************************************************************)
(* C2: calculateAnnualRevenueLost returns exactly 0 whenever one of the    *)
(* four inputs is <= 0 or churnRate > 100, and a strictly positive value   *)
(* only when all four are valid.                                           *)
(***************************************************************************)
C2_AnnualZeroOnInvalid ==
    fn = "annual" =>
        /\ ~ValidInputs(inputs) => ret = Zero
        /\ Lt(Zero, ret) => ValidInputs(inputs)
        /\ Le(Zero, ret)

C2_Witness ==
    /\ fn = "annual"
    /\ Lt(Num(100), inputs.churnRate)
    /\ Lt(Zero, inputs.numberOfCustomers)
    /\ Lt(Zero, inputs.averageOrderValue)
    /\ Lt(Zero, inputs.purchaseFrequency)
    /\ ret = Zero

(***************************************************************************)
(* C4: calculateMonthlyRevenueLost(calculateAnnualRevenueLost(i)) is       *)
(* within half a cent of calculateAnnualRevenueLost(i) / 12 for valid i,   *)
(* and calculateMonthlyRevenueLost returns 0 for any annualLoss <= 0.      *)
(***************************************************************************)
C4_MonthlyIsTwelfth ==
    fn = "monthly" =>
        /\ Le(annualLoss, Zero) => ret = Zero
        /\ Lt(Zero, annualLoss) => Nearest(ret, Div(annualLoss, Num(12)), 100)

C4_Witness ==
    /\ fn = "monthly"
    /\ ValidInputs(inputs)
    /\ annualLoss = calculateAnnualRevenueLost(inputs)
    /\ Lt(Zero, ret)
    /\ ret # Div(annualLoss, Num(12))

(***************************************************************************)
(* C3: calculateLifetimeValueLost(inputs, years) is the compounding        *)
(* projection: every year loses base x churnRate/100 customers, adds their *)
(* annual value to the cumulative loss and shrinks the base; it stops      *)
(* after the first year that leaves the base below 1, or after `years`     *)
(* years; the sum is rounded to 2 decimals once, at the end.  It returns 0 *)
(* when years <= 0 or an input is invalid.  Stated in closed form: after k *)
(* years the base is numberOfCustomers x (1 - churnRate/100)^k and the     *)
(* cumulative loss is (numberOfCustomers - base) x averageOrderValue x     *)
(* purchaseFrequency.                                                      *)
(***************************************************************************)
RECURSIVE Pow(_, _)
Pow(x, k) == IF k = 0 THEN Num(1) ELSE Mul(x, Pow(x, k - 1))

Remaining(i, k) ==
    Mul(i.numberOfCustomers, Pow(Sub(Num(1), Div(i.churnRate, Num(100))), k))

StopYear(i, y) ==
    LET below == {k \in 1..y : Lt(Remaining(i, k), Num(1))}
    IN  IF below = {} THEN y
        ELSE CHOOSE k \in below : \A m \in below : k <= m

ExactLifetime(i, y) ==
    Mul(Mul(Sub(i.numberOfCustomers, Remaining(i, StopYear(i, y))),
            i.averageOrderValue), i.purchaseFrequency)

YearsRun == IF pc = "loop" THEN year
            ELSE IF Lt(currentCustomerBase, Num(1)) THEN year + 1 ELSE year

C3_LifetimeIsCompounding ==
    (fn = "lifetime" /\ pc = "done") =>
        IF years <= 0 \/ ~ValidInputs(inputs)
        THEN ret = Zero
        ELSE /\ YearsRun = StopYear(inputs, years)
             /\ currentCustomerBase = Remaining(inputs, YearsRun)
             /\ HalfUp(ret, ExactLifetime(inputs, years), 100)

C3_Witness ==
    /\ fn = "lifetime"
    /\ pc = "done"
    /\ ValidInputs(inputs)
    /\ 1 < YearsRun
    /\ YearsRun < years
    /\ Lt(Zero, ret)
    /\ ret # cumulativeLoss

(***************************************************************************)
(* C5: calculateCustomerLifespan(churnRate) returns 1 / (churnRate/100)    *)
(* rounded to 1 decimal place for churnRate in (0,100], and 0 for          *)
(* churnRate <= 0 or churnRate > 100.                                      *)
(***************************************************************************)
C5_LifespanIsRoundedInverse ==
    \A k \in DOMAIN lifespanLog :
        LET c == lifespanLog[k].churnRate
            l == lifespanLog[k].lifespan
        IN  IF ValidChurnRate(c)
            THEN HalfUp(l, Div(Num(100), c), 10)
            ELSE l = Zero

C5_Witness ==
    \E k \in DOMAIN lifespanLog :
        /\ lifespanLog[k].churnRate = Num(75)
        /\ lifespanLog[k].lifespan = Rat(13, 10)

(***************************************************************************)
(* C6 as claimed: for any two churn rates a < b in (0,100],                *)
(* calculateCustomerLifespan(a) > calculateCustomerLifespan(b).            *)
(***************************************************************************)
C6_LifespanStrictlyDecreasing ==
    \A j, k \in DOMAIN lifespanLog :
        (/\ ValidChurnRate(lifespanLog[j].churnRate)
         /\ ValidChurnRate(lifespanLog[k].churnRate)
         /\ Lt(lifespanLog[j].churnRate, lifespanLog[k].churnRate))
            => Lt(lifespanLog[k].lifespan, lifespanLog[j].lifespan)

(***************************************************************************)
(* C6 as amended: calculateCustomerLifespan is non-increasing in churnRate *)
(* over (0,100]: for a < b in (0,100], the lifespan of a is >= the         *)
(* lifespan of b (the rounding to 1 decimal makes neighbouring rates       *)
(* equal).                                                                 *)
(***************************************************************************)
C6_LifespanNonIncreasing ==
    \A j, k \in DOMAIN lifespanLog :
        (/\ ValidChurnRate(lifespanLog[j].churnRate)
         /\ ValidChurnRate(lifespanLog[k].churnRate)
         /\ Lt(lifespanLog[j].churnRate, lifespanLog[k].churnRate))
            => Le(lifespanLog[k].lifespan, lifespanLog[j].lifespan)

C6_Witness ==
    \E j, k \in DOMAIN lifespanLog :
        /\ ValidChurnRate(lifespanLog[j].churnRate)
        /\ ValidChurnRate(lifespanLog[k].churnRate)
        /\ Lt(lifespanLog[j].churnRate, lifespanLog[k].churnRate)
        /\ lifespanLog[j].lifespan = lifespanLog[k].lifespan

(***************************************************************************)
(* C7: for valid inputs and annualLoss > 0,                                *)
(* calculateChurnReductionScenarios returns exactly three entries, for the *)
(* reductions 10, 25, 50 in that order, each with                          *)
(* newChurnRate = churnRate x (1 - reduction/100),                         *)
(* annualSavings = annualLoss - calculateAnnualRevenueLost(inputs with the *)
(* new churn rate) and threeYearSavings = 3 x annualSavings, each rounded  *)
(* to 2 decimals; when annualLoss is a whole number of cents the returned  *)
(* threeYearSavings is exactly 3 x the returned annualSavings.             *)
(***************************************************************************)
ReducedRate(i, reduction) ==
    Div(Mul(i.churnRate, Num(100 - reduction)), Num(100))

Saving(i, al, reduction) ==
    Sub(al, calculateAnnualRevenueLost(
                [i EXCEPT !.churnRate = ReducedRate(i, reduction)]))

C8_EntriesAlwaysSave ==
    fn = "scenarios" =>
        \A k \in DOMAIN scenarios :
            /\ Lt(scenarios[k].newChurnRate, inputs.churnRate)
            /\ Le(Zero, scenarios[k].annualSavings)

(***************************************************************************)
(* C8 as amended: when annualLoss is calculateAnnualRevenueLost(inputs),   *)
(* every entry has annualSavings >= 0, and newChurnRate < inputs.churnRate *)
(* whenever inputs.churnRate > 0.05 (at or below 0.05 the rounding of      *)
(* newChurnRate to 2 decimals can return a value >= churnRate).            *)
(***************************************************************************)
C8_EntriesSaveOnOwnLoss ==
    (fn = "scenarios" /\ annualLoss = calculateAnnualRevenueLost(inputs)) =>
        \A k \in DOMAIN scenarios :
            /\ Le(Zero, scenarios[k].annualSavings)
            /\ Lt(Rat(1, 20), inputs.churnRate)
                   => Lt(scenarios[k].newChurnRate, inputs.churnRate)

C8_Witness ==
    /\ fn = "scenarios"
    /\ annualLoss = calculateAnnualRevenueLost(inputs)
    /\ Len(scenarios) = 3
    /\ Lt(Rat(1, 20), inputs.churnRate)
    /\ scenarios[1].annualSavings = Zero

(***************************************************************************)
(* C9: calculateChurnReductionScenarios returns the empty list whenever    *)
(* annualLoss <= 0 or churnRate is outside (0,100], and a non-empty list   *)
(* otherwise.                                                              *)
(***************************************************************************)
C9_EmptyIffDegenerate ==
    fn = "scenarios" =>
        (scenarios = << >>
            <=> (Le(annualLoss, Zero) \/ ~ValidChurnRate(inputs.churnRate)))

C9_Witness ==
    /\ fn = "scenarios"
    /\ Lt(Zero, annualLoss)
    /\ Lt(Num(100), inputs.churnRate)
    /\ scenarios = << >>

(***************************************************************************)
(* C10: categorizeStore classifies with half-open thresholds: size small   *)
(* below 1000 customers, medium below 10000, large below 50000, else       *)
(* enterprise; AOV low below 50, medium below 150, high below 500, else    *)
(* luxury; churn critical above 75, concerning from 60, moderate from 45,  *)
(* else good; each input gets exactly one value per category.              *)
(***************************************************************************)
Within(lo, x, hi) == Le(Num(lo), x) /\ Lt(x, Num(hi))

C11_ExampleStoreIsCritical ==
    (/\ fn \in {"categorize", "earlierCategorize"}
     /\ inputs.numberOfCustomers = Num(5000)
     /\ inputs.averageOrderValue = Num(200)
     /\ inputs.churnRate = Num(75))
        => profile = [sizeCategory |-> "medium", aovCategory |-> "high",
                      churnSeverity |-> "critical"]

(***************************************************************************)
(* calculateAllResults applied to the inputs.                              *)
(***************************************************************************)
InitAllResults ==
    /\ inputs \in AllResultsInputs
    /\ Idle

CallAllResults ==
    /\ pc = "idle"
    /\ allResults' = calculateAllResults(inputs)
    /\ fn' = "all"
    /\ pc' = "done"
    /\ UNCHANGED <<inputs, years, annualLoss, ret, scenarios, profile, year,
                   cumulativeLoss, currentCustomerBase, lifespanLog, naiveRet>>
    /\ UNCHANGED <<appVars, formVars>>

NextAllResults == CallAllResults

SpecAllResults == InitAllResults /\ [][NextAllResults]_vars

ZeroOrEmpty(r) ==
    /\ r.annualRevenueLost = Zero
    /\ r.monthlyRevenueLost = Zero
    /\ r.threeYearImpact = Zero
    /\ r.fiveYearImpact = Zero
    /\ r.churnReductionScenarios = << >>

(***************************************************************************)
(* C12: for the worked example (averageOrderValue = 100, numberOfCustomers *)
(* = 1000, purchaseFrequency = 2, churnRate = 75) the engine returns       *)
(* annualRevenueLost = 150000.00, monthlyRevenueLost = 12500.00,           *)
(* customerLifespan = 1.3 and the scenarios (10: 67.5, 15000, 45000),      *)
(* (25: 56.25, 37500, 112500), (50: 37.5, 75000, 225000).                  *)
(***************************************************************************)
C12_WorkedExample ==
    (fn = "all" /\ inputs = Inputs(Num(1000), Num(75), Num(100), Num(2))) =>
        /\ allResults.annualRevenueLost = Num(150000)
        /\ allResults.monthlyRevenueLost = Num(12500)
        /\ allResults.customerLifespan = Rat(13, 10)
        /\ allResults.churnReductionScenarios =
             << [reductionPercentage |-> 10, newChurnRate |-> Rat(135, 2),
                 annualSavings |-> Num(15000), threeYearSavings |-> Num(45000)],
                [reductionPercentage |-> 25, newChurnRate |-> Rat(225, 4),
                 annualSavings |-> Num(37500), threeYearSavings |-> Num(112500)],
                [reductionPercentage |-> 50, newChurnRate |-> Rat(75, 2),
                 annualSavings |-> Num(75000), threeYearSavings |-> Num(225000)] >>

C12_Witness ==
    /\ fn = "all"
    /\ inputs = Inputs(Num(1000), Num(75), Num(100), Num(2))
    /\ allResults.annualRevenueLost = Num(150000)

(***************************************************************************)
(* C13 as claimed: whenever numberOfCustomers <= 0 or churnRate is outside *)
(* (0,100], calculateAllResults returns annualRevenueLost,                 *)
(* monthlyRevenueLost, threeYearImpact, fiveYearImpact,                    *)
(* customersLostPerYear and customersLostPerMonth all 0 and an empty       *)
(* churnReductionScenarios.                                                *)
(***************************************************************************)
C13_DegenerateGivesZero ==
    (/\ fn = "all"
     /\ \/ Le(inputs.numberOfCustomers, Zero)
        \/ ~ValidChurnRate(inputs.churnRate))
        => /\ ZeroOrEmpty(allResults)
           /\ allResults.customersLostPerYear = Zero
           /\ allResults.customersLostPerMonth = Zero

(***************************************************************************)
(* C14 as claimed: with the other inputs valid, each of churnRate = 0,     *)
(* churnRate = 100 and numberOfCustomers = 0 makes the engine return       *)
(* annualRevenueLost, monthlyRevenueLost, threeYearImpact and              *)
(* fiveYearImpact equal to 0 and an empty churnReductionScenarios.         *)
(***************************************************************************)
OthersValid(i) ==
    /\ Le(Zero, i.numberOfCustomers)
    /\ Le(Zero, i.churnRate) /\ Le(i.churnRate, Num(100))
    /\ Lt(Zero, i.averageOrderValue)
    /\ Lt(Zero, i.purchaseFrequency)

WholeBase(i) ==
    Mul(Mul(i.numberOfCustomers, i.averageOrderValue), i.purchaseFrequency)

earlierCalculateAnnualRevenueLost(i) ==
    IF Le(i.numberOfCustomers, Zero) \/ Le(i.churnRate, Zero)
    THEN Zero
    ELSE LET customersLost == Mul(i.numberOfCustomers, Div(i.churnRate, Num(100)))
             annualRevenuePerCustomer ==
                 Mul(i.averageOrderValue, i.purchaseFrequency)
             loss == Mul(customersLost, annualRevenuePerCustomer)
         IN  Round2(loss)

\* Mutant: the annual loss is returned without multiplying by the years.
earlierCalculateLifetimeValueLost_NoYears(i, y) ==
    IF y <= 0
    THEN Zero
    ELSE Round2(earlierCalculateAnnualRevenueLost(i))

earlierCalculateLifetimeValueLost(i, y) ==
    IF y <= 0
    THEN Zero
    ELSE LET loss == earlierCalculateAnnualRevenueLost(i)
             lifetimeLoss == Mul(loss, Num(y))
         IN  Round2(lifetimeLoss)

\* A small store whose annual loss is 2.4 cents.
RoundingInputs == Inputs(Num(2), Num(10), Rat(6, 5), Rat(1, 10))

ProjectionInputs == LifetimeInputs \cup {RoundingInputs}

(***************************************************************************)
(* Both projections applied to the same inputs and years.                  *)
(***************************************************************************)
InitProjection ==
    /\ inputs \in ProjectionInputs
    /\ Idle

ProjectCompounding ==
    /\ pc = "idle"
    /\ \E y \in -1..MaxYears :
           /\ years' = y
           /\ ret' = calculateLifetimeValueLost(inputs, y)
    /\ fn' = "compounding"
    /\ pc' = "compounded"
    /\ UNCHANGED <<inputs, annualLoss, scenarios, profile, year, cumulativeLoss,
                   currentCustomerBase, lifespanLog>>
    /\ UNCHANGED extVars

ProjectNaive ==
    /\ pc = "compounded"
    /\ naiveRet' = earlierCalculateLifetimeValueLost(inputs, years)
    /\ fn' = "projections"
    /\ pc' = "done"
    /\ UNCHANGED <<inputs, years, annualLoss, ret, scenarios, profile, year,
                   cumulativeLoss, currentCustomerBase, lifespanLog, allResults>>
    /\ UNCHANGED <<appVars, formVars>>

NextProjection ==
    \/ ProjectCompounding
    \/ ProjectNaive

SpecProjection == InitProjection /\ [][NextProjection]_vars

Projected == fn = "projections" /\ pc = "done"

WholeCents(x) == Mul(x, Num(100)).d = 1

\* C15 (as stated): for valid inputs and years >= 1 the two projections agree
\* at years = 1 and the compounding result never exceeds the naive result.
C15_CompoundingNeverExceedsNaive ==
    (Projected /\ ValidInputs(inputs) /\ years >= 1)
        => /\ (years = 1 => ret = naiveRet)
           /\ Le(ret, naiveRet)

\* C15 (amended): for valid inputs and years >= 1 the two projections agree
\* at years = 1; the compounding result exceeds the naive result by less than
\* (years + 1) half cents, and not at all when the unrounded annual loss is a
\* whole number of cents.
C15_CompoundingWithinRounding ==
    (Projected /\ ValidInputs(inputs) /\ years >= 1)
        => /\ (years = 1 => ret = naiveRet)
           /\ \/ Le(ret, naiveRet)
              \/ Lt(Sub(ret, naiveRet), Rat(years + 1, 200))
           /\ (WholeCents(ExactAnnual(inputs)) => Le(ret, naiveRet))

\* Valid inputs on which the projections differ at 3 or 5 years.
C15_Witness ==
    /\ Projected
    /\ ValidInputs(inputs)
    /\ years \in {3, 5}
    /\ Lt(ret, naiveRet)

(***************************************************************************)
(* CalculatorContext: the setters, the completeness flag and the           *)
(* persistence of the state to sessionStorage.                             *)
(***************************************************************************)
\* Mutant: the new inputs are dropped.
setCalculatorInputs_Stale(prev, i) == prev

setCalculatorInputs(prev, i) == [prev EXCEPT !.calculatorInputs = Some(i)]

setCalculatorResults(prev, results) ==
    [prev EXCEPT !.calculatorResults = Some(results)]

setUserInfo(prev, info) == [prev EXCEPT !.userInfo = Some(info)]

setAiAnalysis(prev, analysis) == [prev EXCEPT !.aiAnalysis = Some(analysis)]

clearCalculator == NoContext

isComplete(c) ==
    /\ c.calculatorInputs # Null
    /\ c.calculatorResults # Null
    /\ c.userInfo # Null
    /\ c.aiAnalysis # Null

\* JSON.stringify of the state: its members in order, each a key and a value
JSONstringify(c) ==
    << <<"calculatorInputs", c.calculatorInputs>>,
       <<"calculatorResults", c.calculatorResults>>,
       <<"userInfo", c.userInfo>>,
       <<"aiAnalysis", c.aiAnalysis>> >>

JSONparse(text) ==
    [calculatorInputs |-> text[1][2], calculatorResults |-> text[2][2],
     userInfo |-> text[3][2], aiAnalysis |-> text[4][2]]

\* the provider's initial state: what sessionStorage holds, else nothing
RestoredState == IF storage # Null THEN JSONparse(storage[1]) ELSE NoContext

\* Mutant: the effect writes the entry only when there is none yet.
Saved_Once(c) ==
    IF env.storage /\ storage = Null THEN Some(JSONstringify(c)) ELSE storage

\* sessionStorage after the persisting effect ran for state c: written, or
\* left as it was where setItem throws (private browsing, quota)
Saved(c) == IF env.storage THEN Some(JSONstringify(c)) ELSE storage

\* sessionStorage st after removeItem, which throws where setItem does
removeItem(st) == IF env.storage THEN Null ELSE st

\* sessionStorage after clearCalculator and the effect its setState
\* triggers: the entry is removed in the handler, then the effect persists
\* the cleared state
Cleared ==
    IF env.storage THEN Some(JSONstringify(NoContext)) ELSE removeItem(storage)

(***************************************************************************)
(* ResultsPage: the guard, the narrative request and its fallback.         *)
(***************************************************************************)
\* Mutant: the guard waits for the narrative as well.
ResultsGuard_IsComplete(c) == isComplete(c)

\* Mutant: the guard does not ask for the user's details.
ResultsGuard_NoUserInfo(c) ==
    /\ c.calculatorInputs # Null
    /\ c.calculatorResults # Null

ResultsGuard(c) ==
    /\ c.calculatorInputs # Null
    /\ c.calculatorResults # Null
    /\ c.userInfo # Null

ResultsPageMounted(loading, failed) ==
    [page |-> "results", showEmailCapture |-> FALSE,
     aiLoading |-> loading, aiError |-> failed, redirected |-> FALSE]

\* CalculatorPage mounted by the navigate('/') of the guard effect
RedirectedHome == [CalculatorPageMounted EXCEPT !.redirected = TRUE]

\* what ResultsPage renders on context c
ResultsPageRender(c) ==
    IF c.calculatorInputs = Null \/ c.calculatorResults = Null \/ c.userInfo = Null
    THEN "nothing"
    ELSE "results"

\* what loadAIAnalysis passes to generateChurnAnalysis and to the template:
\* the inputs, results and user details of the render that called it
Subject(c) ==
    [calculatorInputs |-> c.calculatorInputs,
     calculatorResults |-> c.calculatorResults, userInfo |-> c.userInfo]

\* the analysis generateChurnAnalysis returns; its content is modelled by
\* the subject it was written about
GeneratedAnalysis(subject) ==
    [model |-> "claude-sonnet-4-20250514", fallbackUsed |-> FALSE,
     content |-> subject]

\* the analysis loadAIAnalysis builds from the template
FallbackAnalysis(subject) ==
    [model |-> "fallback-template", fallbackUsed |-> TRUE, content |-> subject]

\* how generateChurnAnalysis can end in environment e
AiOutcomes(e) ==
    IF e.apiKey THEN {"text", "nonText", "apiError"} ELSE {"missingKey"}

\* Mutant: a failed request stores nothing.
loadAIAnalysisSettled_NoFallback(c, outcome, subject) ==
    IF outcome = "text" THEN setAiAnalysis(c, GeneratedAnalysis(subject)) ELSE c

\* the context after the loadAIAnalysis called on subject resumed from its
\* await
loadAIAnalysisSettled(c, outcome, subject) ==
    IF outcome = "text"
    THEN setAiAnalysis(c, GeneratedAnalysis(subject))
    ELSE setAiAnalysis(c, FallbackAnalysis(subject))

\* ResultsPage mounting on context c with the narrative requests a: the
\* redirect of the guard effect, else the load effect.  Without an API key
\* generateChurnAnalysis rejects before it awaits anything, and the fallback
\* is stored before the browser handles another event.
MountResultsPage(c, a) ==
    IF ~ResultsGuard(c)
    THEN [ctx |-> c, ui |-> RedirectedHome, ai |-> a]
    ELSE IF c.aiAnalysis # Null
    THEN [ctx |-> c, ui |-> ResultsPageMounted(FALSE, FALSE), ai |-> a]
    ELSE IF ~env.apiKey
    THEN [ctx |-> loadAIAnalysisSettled(c, "missingKey", Subject(c)),
          ui |-> ResultsPageMounted(FALSE, TRUE),
          ai |-> [a EXCEPT !.pc = "done", !.outcome = "missingKey"]]
    ELSE [ctx |-> c, ui |-> ResultsPageMounted(TRUE, FALSE),
          ai |-> [a EXCEPT !.pc = "pending", !.outcome = "none"]]

\* ResultsPage unmounting: a pending request goes on without its page, on
\* the subject its loadAIAnalysis was called with
LeaveResultsPage(a) ==
    [pc |-> "idle", outcome |-> "none",
     orphans |-> IF a.pc = "pending" THEN a.orphans + 1 ELSE a.orphans,
     left |-> IF a.pc = "pending" THEN Append(a.left, Subject(ctx)) ELSE a.left]

CanLeave == ai.pc = "pending" => ai.orphans < MaxOrphans

(***************************************************************************)
(* hubspot.ts: makeRequestWithRetry and submitToHubSpot.                   *)
(***************************************************************************)
maxRetries == 1

\* the delay before the retry, in seconds
RetryDelay == 1

\* how one fetch can settle: a response with its status, or a network error
FetchOutcomes ==
    {[kind |-> "response", status |-> 200],
     [kind |-> "response", status |-> 500],
     [kind |-> "networkError", status |-> 0]}

\* response.ok
Ok(o) == o.kind = "response" /\ o.status \in 200..299

\* what the try block of makeRequestWithRetry throws for outcome o
ErrorOf(o) ==
    IF o.kind = "networkError"
    THEN [name |-> "TypeError", status |-> 0]
    ELSE [name |-> "Error", status |-> o.status]

StartRequest(call) == [ReqIdle EXCEPT !.pc = "fetching", !.call = call]

\* Mutant: a failed last attempt schedules one more.
AttemptSettled_RetryAgain(r, o) ==
    LET seen == [r EXCEPT !.outcomes = Append(@, o)]
    IN  IF Ok(o)
        THEN [seen EXCEPT !.pc = "returned"]
        ELSE IF r.i = maxRetries + 1
        THEN [seen EXCEPT !.pc = "thrown", !.error = ErrorOf(o)]
        ELSE [seen EXCEPT !.pc = "waiting", !.timer = RetryDelay, !.waited = 0]

\* one iteration of the loop of makeRequestWithRetry once its fetch settled
AttemptSettled(r, o) ==
    LET seen == [r EXCEPT !.outcomes = Append(@, o)]
    IN  IF Ok(o)
        THEN [seen EXCEPT !.pc = "returned"]
        ELSE IF r.i = maxRetries
        THEN [seen EXCEPT !.pc = "thrown", !.error = ErrorOf(o)]
        ELSE [seen EXCEPT !.pc = "waiting", !.timer = RetryDelay, !.waited = 0]

\* Mutant: an error outside the try block rejects the promise.
Settle_Uncaught(outcome) ==
    [pc |-> IF outcome = "unparsable" THEN "rejected" ELSE "resolved",
     outcome |-> outcome]

\* submitToHubSpot returning, or its catch block swallowing an error
Settle(outcome) == [pc |-> "resolved", outcome |-> outcome]

calculateLeadScore(results) ==
    IF Lt(Num(100000), results.annualRevenueLost) THEN 90
    ELSE IF Lt(Num(50000), results.annualRevenueLost) THEN 75
    ELSE IF Lt(Num(25000), results.annualRevenueLost) THEN 60
    ELSE IF Lt(Num(10000), results.annualRevenueLost) THEN 40
    ELSE 20

\* categorizeStore of hubspot.ts (the engine has a function of the same
\* name)
hubspot_categorizeStore(i, results) ==
    [sizeCategory |->
         IF \/ Le(Num(10000), i.numberOfCustomers)
            \/ Le(Num(100000), results.annualRevenueLost)
         THEN "enterprise"
         ELSE IF \/ Le(Num(5000), i.numberOfCustomers)
                 \/ Le(Num(50000), results.annualRevenueLost)
         THEN "large"
         ELSE IF \/ Le(Num(1000), i.numberOfCustomers)
                 \/ Le(Num(10000), results.annualRevenueLost)
         THEN "medium"
         ELSE "small"]

\* the properties of the contactData submitToHubSpot builds that come from
\* the calculation
ContactDataOf(i, results) ==
    [annual_revenue_lost |-> results.annualRevenueLost,
     churn_rate |-> i.churnRate,
     total_customers |-> i.numberOfCustomers,
     average_order_value |-> i.averageOrderValue,
     purchase_frequency |-> i.purchaseFrequency,
     lead_score |-> calculateLeadScore(results),
     store_size |-> hubspot_categorizeStore(i, results).sizeCategory]

\* the calls of fetch so far, with the one request r has just made
Fetched(log, r) == IF r.pc = "fetching" THEN Append(log, r.call) ELSE log

\* Mutant: development test mode is not checked.
submitToHubSpot_NoTestMode(e) ==
    IF ~e.hubspot
    THEN [hs |-> Settle("noCredentials"), req |-> ReqIdle]
    ELSE [hs |-> [pc |-> "contact", outcome |-> "none"],
          req |-> StartRequest("contact")]

\* submitToHubSpot up to its first await, in environment e
submitToHubSpot(e) ==
    IF ~e.hubspot
    THEN [hs |-> Settle("noCredentials"), req |-> ReqIdle]
    ELSE IF e.testMode
    THEN [hs |-> Settle("testMode"), req |-> ReqIdle]
    ELSE [hs |-> [pc |-> "contact", outcome |-> "none"],
          req |-> StartRequest("contact")]

\* submitToHubSpot (or addContactToList within it) resumed by request r
Resumed(h, r) ==
    IF r.pc = "returned" /\ r.call = "contact" THEN [h EXCEPT !.pc = "json"]
    ELSE IF r.pc = "returned" /\ r.call = "list" THEN Settle("listAdded")
    ELSE IF r.pc = "thrown" /\ r.call = "contact" THEN Settle("contactFailed")
    ELSE IF r.pc = "thrown" /\ r.call = "list" THEN Settle("listFailed")
    ELSE h

(***************************************************************************)
(* The values entered in the forms and the builds of the application.      *)
(***************************************************************************)
FormInputs ==
    {DefaultInputs, Inputs(Num(1000), Zero, Num(100), Num(2))}

UserInfos == {[email |-> "owner@acme.example", storeName |-> "Acme Store"]}

Envs ==
    [apiKey : BOOLEAN, hubspot : BOOLEAN, testMode : BOOLEAN,
     listId : BOOLEAN, storage : BOOLEAN]

(***************************************************************************)
(* The application: one action per handler the event loop runs.            *)
(***************************************************************************)
InitApp ==
    /\ inputs = DefaultInputs
    /\ EngineIdle
    /\ env \in Envs
    /\ ctx = NoContext
    /\ storage = Null
    /\ ui = CalculatorPageMounted
    /\ ai = AiIdle
    /\ hs = HsIdle
    /\ req = ReqIdle
    /\ docFresh = TRUE
    /\ fetches = << >>
    /\ contactData = Null
    /\ FormIdle

EngineUnchanged ==
    UNCHANGED <<engineVars, allResults, naiveRet, env, formVars>>

\* CalculatorPage.handleCalculatorSubmit
HandleCalculatorSubmit ==
    /\ ui.page = "calculator"
    /\ \E i \in FormInputs :
           LET results == calculateAllResults(i)
               c == setCalculatorResults(setCalculatorInputs(ctx, i), results)
           IN  /\ ctx' = c
               /\ storage' = Saved(c)
    /\ ui' = [ui EXCEPT !.showEmailCapture = TRUE]
    /\ docFresh' = FALSE
    /\ UNCHANGED <<ai, hs, req>>
    /\ UNCHANGED <<fetches, contactData>>
    /\ EngineUnchanged

\* CalculatorPage.handleEmailSubmit, with ResultsPage mounting.  A second
\* submission is taken once the first one's CRM call has settled.
HandleEmailSubmit ==
    /\ ui.page = "calculator"
    /\ ui.showEmailCapture
    /\ ctx.calculatorResults # Null
    /\ hs.pc \in {"idle", "resolved", "rejected"}
    /\ \E info \in UserInfos :
           LET c == setUserInfo(ctx, info)
               crm == IF ctx.calculatorInputs # Null /\ ctx.calculatorResults # Null
                      THEN submitToHubSpot(env)
                      ELSE [hs |-> hs, req |-> req]
               m == MountResultsPage(c, ai)
           IN  /\ ctx' = m.ctx
               /\ ui' = m.ui
               /\ ai' = m.ai
               /\ storage' = Saved(m.ctx)
               /\ hs' = crm.hs
               /\ req' = crm.req
               /\ fetches' = IF /\ ctx.calculatorInputs # Null
                                /\ ctx.calculatorResults # Null
                             THEN Fetched(<< >>, crm.req)
                             ELSE fetches
               /\ contactData' =
                      IF /\ ctx.calculatorInputs # Null
                         /\ ctx.calculatorResults # Null
                         /\ env.hubspot
                      THEN Some(ContactDataOf(ctx.calculatorInputs[1],
                                              ctx.calculatorResults[1]))
                      ELSE contactData
    /\ docFresh' = FALSE
    /\ EngineUnchanged

\* ResultsPage.handleStartOver
HandleStartOver ==
    /\ ui.page = "results"
    /\ CanLeave
    /\ ctx' = clearCalculator
    /\ storage' = Cleared
    /\ ui' = CalculatorPageMounted
    /\ ai' = LeaveResultsPage(ai)
    /\ docFresh' = FALSE
    /\ UNCHANGED <<hs, req>>
    /\ UNCHANGED <<fetches, contactData>>
    /\ EngineUnchanged

\* the browser's back button on /results: the router shows CalculatorPage
BrowserBack ==
    /\ ui.page = "results"
    /\ CanLeave
    /\ ui' = CalculatorPageMounted
    /\ ai' = LeaveResultsPage(ai)
    /\ docFresh' = FALSE
    /\ UNCHANGED <<ctx, storage, hs, req>>
    /\ UNCHANGED <<fetches, contactData>>
    /\ EngineUnchanged

\* the document is loaded (or reloaded) at a route: every pending promise
\* of the old document is gone, the provider restores its state
PageLoad ==
    /\ \E route \in {"calculator", "results"} :
           LET m == IF route = "results"
                    THEN MountResultsPage(RestoredState, AiIdle)
                    ELSE [ctx |-> RestoredState, ui |-> CalculatorPageMounted,
                          ai |-> AiIdle]
           IN  /\ ctx' = m.ctx
               /\ ui' = m.ui
               /\ ai' = m.ai
               /\ storage' = Saved(m.ctx)
    /\ hs' = HsIdle
    /\ req' = ReqIdle
    /\ fetches' = << >>
    /\ contactData' = Null
    /\ docFresh' = TRUE
    /\ EngineUnchanged

\* the narrative request of the mounted page settles and loadAIAnalysis
\* runs to its end
LoadAISettle ==
    /\ ai.pc = "pending"
    /\ \E o \in AiOutcomes(env) :
           /\ ctx' = loadAIAnalysisSettled(ctx, o, Subject(ctx))
           /\ ui' = [ui EXCEPT !.aiLoading = FALSE, !.aiError = (o # "text")]
           /\ ai' = [ai EXCEPT !.pc = "done", !.outcome = o]
    /\ storage' = Saved(ctx')
    /\ docFresh' = FALSE
    /\ UNCHANGED <<hs, req>>
    /\ UNCHANGED <<fetches, contactData>>
    /\ EngineUnchanged

\* the request of a page that was left settles: its loadAIAnalysis still
\* stores the analysis in the context
OrphanSettle ==
    /\ ai.orphans > 0
    /\ \E o \in AiOutcomes(env) : \E k \in 1..Len(ai.left) :
           /\ ctx' = loadAIAnalysisSettled(ctx, o, ai.left[k])
           /\ ai' = [ai EXCEPT !.orphans = @ - 1,
                               !.left = SubSeq(@, 1, k - 1)
                                        \o SubSeq(@, k + 1, Len(@))]
    /\ storage' = Saved(ctx')
    /\ docFresh' = FALSE
    /\ UNCHANGED <<ui, hs, req>>
    /\ UNCHANGED <<fetches, contactData>>
    /\ EngineUnchanged

\* a fetch of makeRequestWithRetry settles; the loop returns, throws or
\* sets its timer, and the caller resumes
FetchSettle ==
    /\ req.pc = "fetching"
    /\ \E o \in FetchOutcomes :
           LET r == AttemptSettled(req, o)
           IN  /\ req' = r
               /\ hs' = Resumed(hs, r)
    /\ docFresh' = FALSE
    /\ UNCHANGED <<ctx, storage, ui, ai>>
    /\ UNCHANGED <<fetches, contactData>>
    /\ EngineUnchanged

\* a second passes while makeRequestWithRetry waits
RetryTick ==
    /\ req.pc = "waiting"
    /\ req.timer > 0
    /\ req' = [req EXCEPT !.timer = @ - 1, !.waited = @ + 1]
    /\ docFresh' = FALSE
    /\ UNCHANGED <<ctx, storage, ui, ai, hs>>
    /\ UNCHANGED <<fetches, contactData>>
    /\ EngineUnchanged

\* the timer fires and the loop makes its next attempt
RetryFire ==
    /\ req.pc = "waiting"
    /\ req.timer = 0
    /\ req' = [req EXCEPT !.pc = "fetching", !.i = @ + 1]
    /\ fetches' = Fetched(fetches, req')
    /\ UNCHANGED contactData
    /\ docFresh' = FALSE
    /\ UNCHANGED <<ctx, storage, ui, ai, hs>>
    /\ EngineUnchanged

\* response.json() settles; submitToHubSpot adds the contact to the list
\* when a list is configured
JsonSettle ==
    /\ hs.pc = "json"
    /\ \E parsed \in BOOLEAN :
           IF ~parsed
           THEN hs' = Settle("unparsable") /\ req' = req
           ELSE IF env.listId
           THEN hs' = [hs EXCEPT !.pc = "list"] /\ req' = StartRequest("list")
           ELSE hs' = Settle("submitted") /\ req' = req
    /\ fetches' = IF req' = req THEN fetches ELSE Fetched(fetches, req')
    /\ UNCHANGED contactData
    /\ docFresh' = FALSE
    /\ UNCHANGED <<ctx, storage, ui, ai>>
    /\ EngineUnchanged

NextApp ==
    \/ HandleCalculatorSubmit
    \/ HandleEmailSubmit
    \/ HandleStartOver
    \/ BrowserBack
    \/ PageLoad
    \/ LoadAISettle
    \/ OrphanSettle
    \/ FetchSettle
    \/ RetryTick
    \/ RetryFire
    \/ JsonSettle

SpecApp == InitApp /\ [][NextApp]_vars

\* every promise that can settle does, and the timer of the retry fires
SpecAppFair ==
    /\ SpecApp
    /\ WF_vars(LoadAISettle)
    /\ WF_vars(OrphanSettle)
    /\ WF_vars(FetchSettle)
    /\ WF_vars(RetryTick)
    /\ WF_vars(RetryFire)
    /\ WF_vars(JsonSettle)

(***************************************************************************)
(* Claims about the application.                                           *)
(***************************************************************************)
\* C16: in every reachable state of the application (after any calculator
\* submissions, email submissions, Start Over and page loads), when the
\* context holds both inputs and results, the results are
\* calculateAllResults of those inputs; results are never held without the
\* inputs they were computed from.
C16_ResultsBelongToInputs ==
    /\ ctx.calculatorResults # Null => ctx.calculatorInputs # Null
    /\ (ctx.calculatorInputs # Null /\ ctx.calculatorResults # Null)
           => ctx.calculatorResults[1] = calculateAllResults(ctx.calculatorInputs[1])

\* The state restored by a reload of /results.
C16_Witness ==
    /\ docFresh
    /\ ui.page = "results"
    /\ ctx.calculatorInputs = Some(Inputs(Num(1000), Zero, Num(100), Num(2)))
    /\ ctx.calculatorResults # Null
    /\ ctx.aiAnalysis # Null

\* a step in which a narrative load of the mounted page runs to its end
LoadFinishes == ai'.pc = "done" /\ (ai.pc # "done" \/ docFresh')

\* a step in which the load of a page that was left runs to its end
OrphanFinishes == ai'.orphans < ai.orphans /\ ~docFresh'

\* C17: when the narrative request of loadAIAnalysis fails (no API key, API
\* error, non-text response) the template analysis is stored, with
\* fallbackUsed = TRUE and model 'fallback-template'; when it succeeds the
\* stored analysis has fallbackUsed = FALSE; and the pending load of a page
\* leads to aiLoading = FALSE with an analysis stored, unless the page is
\* left or the document reloaded first.
C17_NarrativeFallsBackAndFinishes ==
    /\ [][LoadFinishes =>
            /\ ~ui'.aiLoading
            /\ ctx'.aiAnalysis # Null
            /\ ai'.outcome = "text" => ~ctx'.aiAnalysis[1].fallbackUsed
            /\ ai'.outcome # "text" =>
                   /\ ctx'.aiAnalysis[1].model = "fallback-template"
                   /\ ctx'.aiAnalysis[1].fallbackUsed]_vars
    /\ [][OrphanFinishes =>
            /\ ctx'.aiAnalysis # Null
            /\ ctx'.aiAnalysis[1].fallbackUsed =
                   (ctx'.aiAnalysis[1].model = "fallback-template")]_vars
    /\ ai.pc = "pending" ~>
           \/ ai.pc = "done" /\ ~ui.aiLoading /\ ctx.aiAnalysis # Null
           \/ ai.pc = "idle"

\* The page after its request failed with an API error.
C17_Witness ==
    /\ ui.page = "results"
    /\ ai.pc = "done"
    /\ ai.outcome = "apiError"
    /\ ui.aiError
    /\ ~ui.aiLoading
    /\ ctx.aiAnalysis = Some(FallbackAnalysis(Subject(ctx)))

\* the fetch attempts makeRequestWithRetry has made so far
Attempts(r) == Len(r.outcomes) + (IF r.pc = "fetching" THEN 1 ELSE 0)

RequestInFlight == req.pc \in {"fetching", "waiting"}

RequestEnded == req.pc \in {"returned", "thrown"}

\* C18: makeRequestWithRetry makes at most two fetch attempts; the second
\* one only after the first failed (network error or non-OK status) and
\* after the one-second delay; it returns the first OK response and makes
\* no further attempt; when both attempts fail it throws the error of the
\* second; and it always comes to an end.
C18_OneRetryThenEnd ==
    /\ [](/\ Attempts(req) <= 2
          /\ Attempts(req) = 2 =>
                 (~Ok(req.outcomes[1]) /\ req.waited >= RetryDelay)
          /\ req.pc = "returned" =>
                 /\ Ok(req.outcomes[Len(req.outcomes)])
                 /\ \A k \in 1..(Len(req.outcomes) - 1) : ~Ok(req.outcomes[k])
          /\ req.pc = "thrown" =>
                 /\ Len(req.outcomes) = 2
                 /\ ~Ok(req.outcomes[1])
                 /\ ~Ok(req.outcomes[2])
                 /\ req.error = ErrorOf(req.outcomes[2]))
    /\ [][RequestEnded => (req' = req \/ Len(req'.outcomes) = 0)]_vars
    /\ RequestInFlight ~> (RequestEnded \/ docFresh)

\* Two different failures: the second one's error is thrown.
C18_Witness ==
    /\ req.pc = "thrown"
    /\ req.outcomes[1].kind = "networkError"
    /\ req.outcomes[2].status = 500
    /\ req.error = [name |-> "Error", status |-> 500]
    /\ req.waited = RetryDelay

SubmissionInFlight == hs.pc \in {"contact", "json", "list"}

\* C19: the promise of submitToHubSpot is never rejected: without
\* credentials, in test mode, after a network failure or a non-OK status on
\* both attempts, after an unparsable body and after a failed list-add it is
\* resolved, and a submission in flight leads to a resolved one.
C19_SubmitNeverRejects ==
    /\ [](/\ hs.pc # "rejected"
          /\ hs.outcome # "none" => hs.pc = "resolved")
    /\ SubmissionInFlight ~> (hs.pc = "resolved" \/ docFresh)

\* Both attempts of the contact call failed and the promise is resolved.
C19_Witness ==
    /\ hs.pc = "resolved"
    /\ hs.outcome = "contactFailed"
    /\ req.pc = "thrown"
    /\ req.call = "contact"

\* the step of handleEmailSubmit: the only handler that closes the modal
EmailSubmitted == ui.showEmailCapture /\ ~ui'.showEmailCapture /\ ~docFresh'

\* C20: handleEmailSubmit ends on /results whatever the CRM submission does,
\* /results shows the results (its guards on inputs, results and userInfo
\* pass) also while the narrative request is pending, and nothing but the
\* user leaving takes the page away while the request is pending.
C20_ResultsNotGated ==
    /\ [](ui.page = "results" => ResultsGuard(ctx))
    /\ [][EmailSubmitted => (ui'.page = "results" /\ ResultsGuard(ctx'))]_vars
    /\ [][(ai.pc = "pending" /\ ui'.page # "results") => ai'.pc = "idle"]_vars

\* /results showing the results with both network calls still pending.
C20_Witness ==
    /\ ui.page = "results"
    /\ ResultsGuard(ctx)
    /\ ctx.aiAnalysis = Null
    /\ ai.pc = "pending"
    /\ ui.aiLoading
    /\ hs.pc = "contact"
    /\ req.pc = "fetching"

\* C21: the results route is protected: /results stays mounted, showing
\* the results, only in states where calculatorInputs, calculatorResults and
\* userInfo are all non-null; on any other state ResultsPage renders nothing
\* and its guard effect navigates to '/'.
C21_ResultsRouteProtected ==
    /\ [](ui.page = "results" =>
              /\ ctx.calculatorInputs # Null
              /\ ctx.calculatorResults # Null
              /\ ctx.userInfo # Null
              /\ ResultsPageRender(ctx) = "results")
    /\ [][(ui'.redirected /\ ui' # ui) =>
              /\ ui'.page = "calculator"
              /\ ResultsPageRender(ctx') = "nothing"]_vars
    /\ [][(ResultsPageRender(ctx') = "nothing") => ui'.page = "calculator"]_vars

\* /results loaded after the calculation but before the email form was
\* submitted: redirected to '/'.
C21_Witness ==
    /\ ui.redirected
    /\ ui.page = "calculator"
    /\ ctx.calculatorInputs # Null
    /\ ctx.calculatorResults # Null
    /\ ctx.userInfo = Null

\* the step of handleStartOver: the only handler that leaves /results for
\* '/' with another context
StartedOver ==
    ui.page = "results" /\ ui'.page = "calculator" /\ ~docFresh' /\ ctx' # ctx

\* C22: Start Over discards the session: once clearCalculator and the
\* effects it triggers have run, calculatorInputs, calculatorResults,
\* userInfo and aiAnalysis are all null and sessionStorage holds no
\* 'churnguard_calculator' entry.
C22_StartOverDiscardsSession ==
    [][StartedOver => (ctx' = NoContext /\ storage' = Null)]_vars

(***************************************************************************)
(* CalculatorForm (components/CalculatorForm.tsx).                         *)
(*                                                                         *)
(* A field's text is the sequence of its characters.  NaN is the number    *)
(* 0/0; every comparison with it is false and it is falsy.                 *)
(***************************************************************************)
NaN == [n |-> 0, d |-> 0]

IsNaN(x) == x.d = 0

\* x < y of two JavaScript numbers
JsLt(x, y) == ~IsNaN(x) /\ ~IsNaN(y) /\ Lt(x, y)

\* x || y of two JavaScript numbers
OrElse(x, y) == IF IsNaN(x) \/ x.n = 0 THEN y ELSE x

DigitChars == <<"0", "1", "2", "3", "4", "5", "6", "7", "8", "9">>

IsDigit(c) == \E k \in 1..10 : DigitChars[k] = c

DigitValue(c) == (CHOOSE k \in 1..10 : DigitChars[k] = c) - 1

RECURSIVE Pow10(_)
Pow10(k) == IF k = 0 THEN 1 ELSE 10 * Pow10(k - 1)

\* the longest prefix of t made of digits
RECURSIVE DigitRun(_)
DigitRun(t) ==
    IF t = << >> \/ ~IsDigit(Head(t)) THEN << >>
    ELSE <<Head(t)>> \o DigitRun(Tail(t))

\* the natural number a run of digits denotes
RECURSIVE NatOf(_)
NatOf(ds) ==
    IF ds = << >> THEN 0
    ELSE 10 * NatOf(SubSeq(ds, 1, Len(ds) - 1)) + DigitValue(ds[Len(ds)])

\* the decimal digits of a natural number
RECURSIVE DigitsOf(_)
DigitsOf(k) ==
    IF k < 10 THEN <<DigitChars[k + 1]>>
    ELSE DigitsOf(k \div 10) \o <<DigitChars[(k % 10) + 1]>>

\* the text a user types for the number q (at most two decimals)
TextOf(q) ==
    LET hundredths == (Abs(q.n) * 100) \div q.d
        whole == hundredths \div 100
        cents == hundredths % 100
        decimals == IF cents = 0 THEN << >>
                    ELSE IF cents % 10 = 0
                    THEN <<".", DigitChars[(cents \div 10) + 1]>>
                    ELSE <<".", DigitChars[(cents \div 10) + 1],
                           DigitChars[(cents % 10) + 1]>>
    IN  (IF q.n < 0 THEN <<"-">> ELSE << >>) \o DigitsOf(whole) \o decimals

\* parseFloat of a text without white space or exponent: an optional sign,
\* digits, an optional point and digits; what follows is ignored, and a text
\* without a digit there is NaN
parseFloat(t) ==
    LET signed == t # << >> /\ Head(t) \in {"-", "+"}
        body == IF signed THEN Tail(t) ELSE t
        int == DigitRun(body)
        rest == SubSeq(body, Len(int) + 1, Len(body))
        frac == IF rest # << >> /\ Head(rest) = "."
                THEN DigitRun(Tail(rest)) ELSE << >>
        mag == Rat(NatOf(int) * Pow10(Len(frac)) + NatOf(frac),
                   Pow10(Len(frac)))
    IN  IF int = << >> /\ frac = << >> THEN NaN
        ELSE IF Head(t) = "-" THEN Sub(Zero, mag) ELSE mag

\* parts[0].replace(/\B(?=(\d{3})+(?!\d))/g, ','): a comma before every
\* group of three digits counted from the right
RECURSIVE Grouped(_)
Grouped(ds) ==
    IF ds = << >> THEN << >>
    ELSE <<Head(ds)>>
         \o (IF Len(ds) > 1 /\ (Len(ds) - 1) % 3 = 0 THEN <<",">> ELSE << >>)
         \o Grouped(Tail(ds))

\* the text before the first "."
RECURSIVE FirstPart(_)
FirstPart(t) ==
    IF t = << >> \/ Head(t) = "." THEN << >>
    ELSE <<Head(t)>> \o FirstPart(Tail(t))

formatNumber(value) ==
    LET numValue == SelectSeq(value, LAMBDA c : IsDigit(c) \/ c = ".")
        first == FirstPart(numValue)
    IN  IF numValue = << >> THEN << >>
        ELSE Grouped(first) \o SubSeq(numValue, Len(first) + 1, Len(numValue))

formatCurrency(value) ==
    IF value = << >> THEN << >>
    ELSE LET formatted == formatNumber(value)
         IN  IF formatted # << >> THEN <<"$">> \o formatted ELSE << >>

parseFormattedNumber(value) ==
    OrElse(parseFloat(SelectSeq(value, LAMBDA c : c \notin {"$", ","})), Zero)

\* Mutant: a blank churn rate becomes 0.
handleFormSubmit_NoDefault(data) ==
    Inputs(parseFormattedNumber(data.numberOfCustomers),
           IF data.churnRate # << >> THEN parseFloat(data.churnRate) ELSE Zero,
           parseFormattedNumber(data.averageOrderValue),
           OrElse(parseFloat(data.purchaseFrequency), Num(2)))

\* the CalculatorInputs handleFormSubmit hands to onSubmit (the two optional
\* fields of the advanced section are left out)
handleFormSubmit(data) ==
    Inputs(parseFormattedNumber(data.numberOfCustomers),
           IF data.churnRate # << >> THEN parseFloat(data.churnRate)
                                     ELSE Num(75),
           parseFormattedNumber(data.averageOrderValue),
           OrElse(parseFloat(data.purchaseFrequency), Num(2)))

FieldNames ==
    {"averageOrderValue", "numberOfCustomers", "purchaseFrequency", "churnRate"}

\* Mutant: the rule that the churn rate cannot exceed 100 is missing.
FieldValid_NoCeiling(field, value) ==
    CASE field = "averageOrderValue" ->
            value # << >> /\ ~JsLt(parseFormattedNumber(value), Num(1))
      [] field = "numberOfCustomers" ->
            value # << >> /\ ~JsLt(parseFormattedNumber(value), Num(1))
      [] field = "purchaseFrequency" ->
            value # << >> /\ ~JsLt(parseFloat(value), Rat(1, 10))
      [] field = "churnRate" ->
            \/ value = << >>
            \/ ~JsLt(parseFloat(value), Zero)

\* the rules of a field's Controller: required, then validate
FieldValid(field, value) ==
    CASE field = "averageOrderValue" ->
            value # << >> /\ ~JsLt(parseFormattedNumber(value), Num(1))
      [] field = "numberOfCustomers" ->
            value # << >> /\ ~JsLt(parseFormattedNumber(value), Num(1))
      [] field = "purchaseFrequency" ->
            value # << >> /\ ~JsLt(parseFloat(value), Rat(1, 10))
      [] field = "churnRate" ->
            \/ value = << >>
            \/ /\ ~JsLt(parseFloat(value), Zero)
               /\ ~JsLt(Num(100), parseFloat(value))

Invalid(data) == {f \in FieldNames : ~FieldValid(f, data[f])}

\* what the user types: e.target.value of the two text inputs, and the
\* numbers typed into the two number inputs (a number input holds the empty
\* text or the text of a number)
TypedAmounts == {<< >>, TextOf(Num(85)), TextOf(Num(1200)), <<".">>}

TypedCustomers == {<< >>, TextOf(Num(0)), TextOf(Num(1000))}

FrequencyNumbers == {Num(2), Zero, Rat(1, 20), Rat(1, 10), Rat(5, 2)}

ChurnNumbers == {Zero, Rat(25, 2), Num(100), Num(101), Num(-5)}

TypedValues(field) ==
    CASE field = "averageOrderValue" -> {formatCurrency(t) : t \in TypedAmounts}
      [] field = "numberOfCustomers" -> {formatNumber(t) : t \in TypedCustomers}
      [] field = "purchaseFrequency" ->
            {<< >>} \cup {TextOf(q) : q \in FrequencyNumbers}
      [] field = "churnRate" -> {<< >>} \cup {TextOf(q) : q \in ChurnNumbers}

InitForm ==
    /\ inputs = DefaultInputs
    /\ Idle

FormUnchanged == UNCHANGED <<engineVars, allResults, naiveRet, appVars, wizard>>

\* a field's onChange
EditField ==
    /\ \E f \in FieldNames : \E v \in TypedValues(f) :
          form' = [form EXCEPT !.data[f] = v]
    /\ FormUnchanged

\* handleSubmit(handleFormSubmit): every field is validated, and
\* handleFormSubmit runs when none fails
SubmitForm ==
    /\ form' = IF Invalid(form.data) = {}
               THEN [form EXCEPT !.onSubmit =
                        Some([data |-> form.data,
                              inputs |-> handleFormSubmit(form.data)])]
               ELSE form
    /\ FormUnchanged

NextForm ==
    \/ EditField
    \/ SubmitForm

SpecForm == InitForm /\ [][NextForm]_vars

\* the last call of onSubmit
Handed == form.onSubmit[1]

\* C23: whenever CalculatorForm calls onSubmit, the churn rate handed over is
\* 75 if the churn-rate field was blank, the purchase frequency is 2 if the
\* purchase-frequency field was blank or had no number in it, and a number
\* the user typed into either field is handed over as that number.
C23_FormDefaults ==
    /\ LET i == handleFormSubmit(form.data)
       IN  /\ form.data.churnRate = << >> => i.churnRate = Num(75)
           /\ IsNaN(parseFloat(form.data.purchaseFrequency))
                  => i.purchaseFrequency = Num(2)
    /\ form.onSubmit # Null =>
          /\ Handed.inputs = handleFormSubmit(Handed.data)
          /\ Handed.data.churnRate = << >> => Handed.inputs.churnRate = Num(75)
          /\ \A q \in ChurnNumbers :
                Handed.data.churnRate = TextOf(q) => Handed.inputs.churnRate = q
          /\ \A q \in FrequencyNumbers :
                Handed.data.purchaseFrequency = TextOf(q)
                    => Handed.inputs.purchaseFrequency = q
          /\ \A q \in {Num(85), Num(1200)} :
                Handed.data.averageOrderValue = formatCurrency(TextOf(q))
                    => Handed.inputs.averageOrderValue = q
          /\ Handed.data.numberOfCustomers = formatNumber(TextOf(Num(1000)))
                => Handed.inputs.numberOfCustomers = Num(1000)

C23_Witness ==
    /\ form.onSubmit # Null
    /\ Handed.data.churnRate = << >>
    /\ Handed.inputs.churnRate = Num(75)
    /\ Handed.data.purchaseFrequency = TextOf(Rat(5, 2))
    /\ Handed.inputs.purchaseFrequency = Rat(5, 2)
    /\ Handed.data.averageOrderValue = <<"$", "1", ",", "2", "0", "0">>

\* the ranges of the three required fields of a CalculatorInputs
RequiredInRange(i) ==
    /\ Le(Num(1), i.averageOrderValue)
    /\ Le(Num(1), i.numberOfCustomers)
    /\ Le(Rat(1, 10), i.purchaseFrequency)
    /\ ~IsNaN(i.averageOrderValue) /\ ~IsNaN(i.numberOfCustomers)
    /\ ~IsNaN(i.purchaseFrequency) /\ ~IsNaN(i.churnRate)

\* C25: every CalculatorInputs CalculatorForm hands to onSubmit has
\* averageOrderValue >= 1, numberOfCustomers >= 1, purchaseFrequency >= 0.1
\* and a churnRate in (0,100].
C25_NoDegenerateInput ==
    form.onSubmit # Null =>
        /\ RequiredInRange(Handed.inputs)
        /\ Lt(Zero, Handed.inputs.churnRate)
        /\ Le(Handed.inputs.churnRate, Num(100))

\* C25 as the code has it: the churn rate handed over is in [0,100], 0
\* included.
C25_NoDegenerateInputAmended ==
    form.onSubmit # Null =>
        /\ RequiredInRange(Handed.inputs)
        /\ Le(Zero, Handed.inputs.churnRate)
        /\ Le(Handed.inputs.churnRate, Num(100))

C25_Witness ==
    /\ form.onSubmit # Null
    /\ Handed.data.churnRate = <<"0">>
    /\ Handed.inputs.churnRate = Zero
    /\ Handed.inputs.purchaseFrequency = Rat(1, 10)

\* sessionStorage holds the serialisation of the in-memory state, and the
\* provider's initializer would restore that state from it
Mirrored(c, st) ==
    /\ st = Some(JSONstringify(c))
    /\ JSONparse(st[1]) = c

\* a page refresh: the document is loaded anew
Refreshed == docFresh'

\* what a refresh restores: the four fields as they were, but for a
\* narrative the freshly mounted ResultsPage stored where there was none
RestoredExactly ==
    /\ ctx'.calculatorInputs = ctx.calculatorInputs
    /\ ctx'.calculatorResults = ctx.calculatorResults
    /\ ctx'.userInfo = ctx.userInfo
    /\ (ctx.aiAnalysis # Null \/ ui'.page = "calculator")
           => ctx'.aiAnalysis = ctx.aiAnalysis

FetchesTo(log, call) == Cardinality({k \in 1..Len(log) : log[k] = call})

\* a step in which the first request to the list endpoint is made
ListRequestIssued == FetchesTo(fetches', "list") > 0 /\ FetchesTo(fetches, "list") = 0

\* the contact request has returned an ok response
ContactSucceeded ==
    /\ req.call = "contact"
    /\ req.pc = "returned"
    /\ Ok(req.outcomes[Len(req.outcomes)])

\* C26: submitToHubSpot makes no HTTP request when the credentials are
\* missing or in development test mode; otherwise the contact request is
\* made first, the list request only after the contact request succeeded
\* and only when a list id is configured, and one call makes at most four
\* calls of fetch, two per request.
C26_RequestOrder ==
    /\ []((~env.hubspot \/ env.testMode) => (fetches = << >> /\ req = ReqIdle))
    /\ [](fetches # << >> => fetches[1] = "contact")
    /\ [](\A k \in 1..Len(fetches) : \A j \in 1..k :
              fetches[j] = "list" => fetches[k] = "list")
    /\ [](/\ Len(fetches) <= 4
          /\ FetchesTo(fetches, "contact") <= 2
          /\ FetchesTo(fetches, "list") <= 2
          /\ FetchesTo(fetches, "contact") + FetchesTo(fetches, "list")
                = Len(fetches))
    /\ [][ListRequestIssued => (env.listId /\ hs.pc = "json" /\ ContactSucceeded)]_vars
    /\ [](req.pc = "fetching" => (fetches # << >>
                                   /\ fetches[Len(fetches)] = req.call))

C26_Witness ==
    /\ fetches = <<"contact", "contact", "list", "list">>
    /\ hs.pc = "resolved"
    /\ env.listId

\* C27: in every reachable state where aiAnalysis is non-null, it was
\* generated (by the LLM call or from the fallback template) from the
\* calculatorInputs, calculatorResults and userInfo the context holds, under
\* any interleaving of calculator submissions, email submissions,
\* back-navigation, Start Over and the completion of a narrative request
\* that was in flight when the user left the results page.
C27_NarrativeBelongsToInputs ==
    ctx.aiAnalysis # Null => ctx.aiAnalysis[1].content = Subject(ctx)

(***************************************************************************)
(* The projections of one store: calculateLifetimeValueLost step by step,  *)
(* or calculateAllResults, on the same inputs.                             *)
(***************************************************************************)
NextProjections ==
    \/ NextLifetime
    \/ CallAllResults

SpecProjections == InitLifetime /\ [][NextProjections]_vars

\* numberOfCustomers x averageOrderValue x purchaseFrequency: the revenue of
\* one year if every customer stayed
WholeBaseRevenue(i) ==
    Mul(i.numberOfCustomers, Mul(i.averageOrderValue, i.purchaseFrequency))

\* the customers lost so far in the loop: the loss so far over the annual
\* value of one customer
CustomersLostSoFar ==
    Div(cumulativeLoss, Mul(inputs.averageOrderValue, inputs.purchaseFrequency))

InProjectionLoop == fn = "lifetime" /\ pc \in {"loop", "break"}

\* C28: for every valid input annualRevenueLost <= threeYearImpact <=
\* fiveYearImpact <= numberOfCustomers x averageOrderValue x
\* purchaseFrequency (up to the rounding to 2 decimals); inside the
\* projection loop the remaining customer base is never negative, and the
\* remaining base plus the customers lost so far is numberOfCustomers.
C28_ProjectionsOrdered ==
    /\ (fn = "all" /\ pc = "done" /\ ValidInputs(inputs)) =>
           /\ Le(allResults.annualRevenueLost, allResults.threeYearImpact)
           /\ Le(allResults.threeYearImpact, allResults.fiveYearImpact)
           /\ Le(allResults.fiveYearImpact, Round2(WholeBaseRevenue(inputs)))
    /\ InProjectionLoop =>
           /\ Le(Zero, currentCustomerBase)
           /\ Add(currentCustomerBase, CustomersLostSoFar)
                  = inputs.numberOfCustomers

C28_Witness ==
    /\ InProjectionLoop
    /\ year = 2
    /\ Lt(Zero, currentCustomerBase)
    /\ Lt(currentCustomerBase, inputs.numberOfCustomers)
    /\ Lt(calculateAnnualRevenueLost(inputs), Round2(cumulativeLoss))
    /\ Lt(cumulativeLoss, WholeBaseRevenue(inputs))

\* the CalculatorInputs a contact was built from
InputsOfContact(c) ==
    Inputs(c.total_customers, c.churn_rate, c.average_order_value,
           c.purchase_frequency)

\* C29: the store_size property submitToHubSpot builds for a pair of inputs
\* and results of calculateAllResults is the sizeCategory the engine's
\* categorizeStore returns for the same inputs.
C29_StoreSizeAgrees ==
    contactData # Null =>
        LET i == InputsOfContact(contactData[1])
        IN  contactData[1].store_size
                = categorizeStore(i, calculateAllResults(i)).sizeCategory

(***************************************************************************)
(* StepWizardCalculator (components/StepWizardCalculator.tsx).             *)
(*                                                                         *)
(* A member of formData is Null while undefined, else Some(number).        *)
(***************************************************************************)
steps ==
    <<[field |-> "averageOrderValue", type |-> "currency", optional |-> FALSE],
      [field |-> "numberOfCustomers", type |-> "number", optional |-> FALSE],
      [field |-> "purchaseFrequency", type |-> "number", optional |-> FALSE],
      [field |-> "churnRate", type |-> "percentage", optional |-> TRUE]>>

\* steps[currentStep] of the component in state w
currentStepData(w) == steps[w.currentStep + 1]

\* !value of a number or undefined
Falsy(v) == v = Null \/ IsNaN(v[1]) \/ v[1].n = 0

\* value || k
ValueOr(v, k) == IF Falsy(v) THEN k ELSE v[1]

\* Mutant: a percentage above 100 is accepted.
validateStep_NoCeiling(w, value) ==
    IF currentStepData(w).optional /\ Falsy(value)
    THEN [ok |-> TRUE, errors |-> w.errors]
    ELSE IF Falsy(value) \/ Le(value[1], Zero)
    THEN [ok |-> FALSE, errors |-> {currentStepData(w).field}]
    ELSE [ok |-> TRUE, errors |-> {}]

\* validateStep: whether the value passes, and the errors it leaves
validateStep(w, value) ==
    IF currentStepData(w).optional /\ Falsy(value)
    THEN [ok |-> TRUE, errors |-> w.errors]
    ELSE IF Falsy(value) \/ Le(value[1], Zero)
    THEN [ok |-> FALSE, errors |-> {currentStepData(w).field}]
    ELSE IF currentStepData(w).type = "percentage" /\ Lt(Num(100), value[1])
    THEN [ok |-> FALSE, errors |-> {currentStepData(w).field}]
    ELSE [ok |-> TRUE, errors |-> {}]

\* the CalculatorInputs handleSubmit builds from formData
handleSubmit(formData) ==
    Inputs(ValueOr(formData.numberOfCustomers, Zero),
           ValueOr(formData.churnRate, Num(75)),
           ValueOr(formData.averageOrderValue, Zero),
           ValueOr(formData.purchaseFrequency, Num(2)))

\* handleNext run by a render that saw state w: the component's next state
handleNext(w) ==
    LET v == validateStep(w, w.formData[currentStepData(w).field])
    IN  IF ~v.ok THEN [w EXCEPT !.errors = v.errors]
        ELSE IF w.currentStep < Len(steps) - 1
        THEN [w EXCEPT !.errors = v.errors, !.currentStep = @ + 1]
        ELSE [w EXCEPT !.errors = v.errors,
                       !.onSubmit = Some([step |-> w.currentStep,
                                          inputs |-> handleSubmit(w.formData)])]

handleBack(w) ==
    IF w.currentStep > 0
    THEN [w EXCEPT !.currentStep = @ - 1, !.errors = {}]
    ELSE w

updateValue(w, field, value) ==
    [w EXCEPT !.formData[field] = Some(OrElse(parseFloat(value), Zero)),
              !.errors = {}]

\* what the number input can hold: the empty text or the text of a number
WizardNumbers == {Zero, Num(-5), Num(50), Num(150)}

WizardTyped == {<< >>} \cup {TextOf(q) : q \in WizardNumbers}

WizardUnchanged ==
    UNCHANGED <<engineVars, allResults, naiveRet, appVars, form>>

\* the input's onChange
WizardEdit ==
    /\ \E t \in WizardTyped :
          wizard' = updateValue(wizard, currentStepData(wizard).field, t)
    /\ WizardUnchanged

\* the Continue / Calculate button, disabled while the value is falsy
WizardClickNext ==
    /\ ~Falsy(wizard.formData[currentStepData(wizard).field])
    /\ wizard' = handleNext(wizard)
    /\ WizardUnchanged

\* the Enter key in the input
WizardPressEnter ==
    /\ wizard' = handleNext(wizard)
    /\ WizardUnchanged

\* the Back button, rendered after the first step
WizardClickBack ==
    /\ wizard.currentStep > 0
    /\ wizard' = handleBack(wizard)
    /\ WizardUnchanged

\* the Skip button of an optional step: setFormData with 75, then
\* handleNext, which still sees the formData of this render
WizardClickSkip ==
    /\ currentStepData(wizard).optional
    /\ wizard' = [handleNext(wizard) EXCEPT
                     !.formData[currentStepData(wizard).field] = Some(Num(75))]
    /\ WizardUnchanged

NextWizard ==
    \/ WizardEdit
    \/ WizardClickNext
    \/ WizardPressEnter
    \/ WizardClickBack
    \/ WizardClickSkip

SpecWizard == InitForm /\ [][NextWizard]_vars

\* a step in which the wizard calls onSubmit with other inputs than before
WizardSubmits == wizard'.onSubmit # wizard.onSubmit

\* C30: under any sequence of edits, Next (button or Enter), Back and Skip,
\* currentStep stays within 0..3, onSubmit is called only from the last step
\* after that step's value passed validateStep, and the inputs handed to
\* onSubmit have averageOrderValue > 0, numberOfCustomers > 0,
\* purchaseFrequency > 0 and churnRate in (0,100].
C30_WizardSafe ==
    /\ [](wizard.currentStep \in 0..3)
    /\ [][WizardSubmits =>
            /\ wizard.currentStep = 3
            /\ wizard'.currentStep = 3
            /\ validateStep(wizard, wizard.formData.churnRate).ok
            /\ wizard'.onSubmit[1].step = 3]_vars
    /\ [](wizard.onSubmit # Null =>
            LET i == wizard.onSubmit[1].inputs
            IN  /\ Lt(Zero, i.averageOrderValue)
                /\ Lt(Zero, i.numberOfCustomers)
                /\ Lt(Zero, i.purchaseFrequency)
                /\ Lt(Zero, i.churnRate)
                /\ Le(i.churnRate, Num(100)))

C30_Witness ==
    /\ wizard.onSubmit # Null
    /\ wizard.onSubmit[1].inputs = Inputs(Num(50), Num(50), Num(150), Num(2))
    /\ wizard.currentStep = 3
    /\ wizard.formData.churnRate = Some(Num(75))
====
